---- MODULE Spec2Model ----
(***************************************************************************)
(* WebCrawl: the per-URL scrape pipeline (scrapeURL, engine fallback,      *)
(* finalization, transformers) and the bounded crawl frontier (crawlSite)  *)
(* that drives it.                                                         *)
(***************************************************************************)
EXTENDS Integers, Sequences, FiniteSets, TLC

(***************************************************************************)
(* Bounds of the model.                                                    *)
(***************************************************************************)
MaxLimit == 3        \* crawl options.limit ranges over 1..MaxLimit
MaxDepthOpt == 1     \* crawl options.maxDepth ranges over 0..MaxDepthOpt
MaxLinks == 2        \* length of a list of links handed to the frontier
MaxFetches == 3      \* calls of the fetch engine in one process

(***************************************************************************)
(* Values.                                                                 *)
(***************************************************************************)
Undefined == "undefined"

Formats == {"markdown", "html", "rawHtml", "links", "images"}

\* Format sets a request may carry (scrapeOptions.formats, default markdown).
FormatChoices ==
  { {"markdown"}, {"html"}, {"rawHtml"}, {"markdown", "links"},
    {"links", "images"}, {}, Formats }

\* A URL: whether `new URL(url)` parses it, its path segments (name and
\* extension after the last dot) and whether the query has `waitFor`.
Seg(n, e) == [name |-> n, ext |-> e]
Url(p, w) == [valid |-> TRUE, path |-> p, waitFor |-> w]
UrlRoot == Url(<<>>, FALSE)
UrlA == Url(<<Seg("a", "")>>, FALSE)
UrlAB == Url(<<Seg("a", ""), Seg("b", "")>>, FALSE)
UrlABC == Url(<<Seg("a", ""), Seg("b", ""), Seg("c", "")>>, FALSE)
UrlPdf == Url(<<Seg("paper", "PDF")>>, FALSE)
UrlPdfDir == Url(<<Seg("x", "pdf"), Seg("view", "")>>, FALSE)
UrlDocx == Url(<<Seg("d", "docx")>>, FALSE)
UrlWait == Url(<<Seg("a", "")>>, TRUE)
UrlBad == [valid |-> FALSE, path |-> <<>>, waitFor |-> FALSE]

ScrapeUrls ==
  {UrlRoot, UrlA, UrlPdf, UrlPdfDir, UrlDocx, UrlWait, UrlBad}

\* Bodies an engine can hand back: empty, whitespace only, markup that
\* cleans to nothing, markup with text outside the main content only,
\* markup with main content, and the text of a PDF.
HtmlEmpty == ""
HtmlBlank == " "
HtmlScript == "<script>"
HtmlNav == "<nav>"
HtmlMain == "<main>"
PdfText == "pdftext"
HtmlBodies == {HtmlEmpty, HtmlBlank, HtmlScript, HtmlNav, HtmlMain}
PdfBodies == {HtmlEmpty, PdfText}

StatusCodes == {200, 304, 404}

Err(n) == [name |-> n, featureFlags |-> {}]
AddFeatureError(flags) == [name |-> "AddFeatureError", featureFlags |-> flags]
NoError == Err("null")
NoEnginesLeftError == Err("NoEnginesLeftError")

(***************************************************************************)
(* String helpers of the runtime.                                          *)
(***************************************************************************)
Trim(s) == IF s = HtmlBlank THEN "" ELSE s

Truthy(s) == s # Undefined /\ s # ""

ToLowerCase(e) ==
  CASE e = "PDF" -> "pdf"
    [] e = "DOCX" -> "docx"
    [] OTHER -> e

DocumentExts == {"docx", "odt", "rtf", "xlsx", "xls"}

hasFormatOfType(formats, type) == type \in formats

(***************************************************************************)
(* buildFeatureFlags: flags derived from the URL path and query.           *)
(***************************************************************************)
PathHasExt(url, exts) ==
  \E i \in 1..Len(url.path) : ToLowerCase(url.path[i].ext) \in exts

buildFeatureFlags(url) ==
  LET isDocument == PathHasExt(url, DocumentExts)
      typeFlags == IF isDocument THEN {"document"}
                   ELSE IF PathHasExt(url, {"pdf"}) THEN {"pdf"}
                   ELSE {}
  IN typeFlags \cup (IF url.waitFor THEN {"waitFor"} ELSE {})

(***************************************************************************)
(* buildFallbackList: ordered engine list for a flag set.                  *)
(***************************************************************************)
\* Variant: the PDF engine is pushed whenever the pdf flag is set.
buildFallbackListPdfAlways(flags, playwrightConfigured) ==
  LET doc == IF "document" \in flags THEN <<"document">> ELSE <<>>
      pdf == IF "pdf" \in flags THEN <<"pdf">> ELSE <<>>
      browser == IF playwrightConfigured THEN <<"playwright">> ELSE <<>>
  IN doc \o pdf \o browser \o <<"fetch">>

buildFallbackList(flags, playwrightConfigured) ==
  LET first == IF "document" \in flags THEN <<"document">>
               ELSE IF "pdf" \in flags THEN <<"pdf">>
               ELSE <<>>
      browser == IF playwrightConfigured THEN <<"playwright">> ELSE <<>>
  IN first \o browser \o <<"fetch">>

(***************************************************************************)
(* HTML cleaning and Markdown conversion.                                  *)
(***************************************************************************)
htmlTransform(html, onlyMainContent) ==
  CASE html = HtmlScript -> ""
    [] html = HtmlNav /\ onlyMainContent -> ""
    [] OTHER -> html

parseMarkdown(html) ==
  CASE ~Truthy(html) -> ""
    [] html = HtmlBlank -> ""
    [] html = HtmlNav -> "[nav]"
    [] html = HtmlMain -> "# main"
    [] OTHER -> html

(***************************************************************************)
(* Acceptance of an engine result (scrapeURLWithFallbacks).                *)
(***************************************************************************)
checkMarkdown(engineResult, formats) ==
  IF hasFormatOfType(formats, "markdown")
  THEN LET main == parseMarkdown(htmlTransform(engineResult.html, TRUE))
       IN IF Trim(main) = ""
          THEN parseMarkdown(htmlTransform(engineResult.html, FALSE))
          ELSE main
  ELSE Trim(engineResult.html)

isLongEnough(engineResult, formats) ==
  Trim(checkMarkdown(engineResult, formats)) # ""

isGoodStatusCode(statusCode) ==
  (statusCode >= 200 /\ statusCode < 300) \/ statusCode = 304

\* Variant: a result is accepted only with content and a good status code.
IsAcceptedGoodStatusOnly(engineResult, formats) ==
  isLongEnough(engineResult, formats)
    /\ isGoodStatusCode(engineResult.statusCode)

IsAccepted(engineResult, formats) ==
  isLongEnough(engineResult, formats)
    \/ ~isGoodStatusCode(engineResult.statusCode)

(***************************************************************************)
(* executeTransformers and finalizeDocument.  `failing` is the set of      *)
(* transformers (markdown, links, images) that throw; each throw is        *)
(* caught and logged by the transformer's own try/catch.                   *)
(***************************************************************************)
Coalesce(a, b) == IF a # Undefined THEN a ELSE b

\* Variant: the `html` format is never written to the document.
executeTransformersNoHtml(formats, document, failing) ==
  LET html == Coalesce(Coalesce(document.rawHtml, document.html), "")
      want(f) == Truthy(html) /\ hasFormatOfType(formats, f)
      markdown ==
        IF want("markdown") /\ ~Truthy(document.markdown)
             /\ "markdown" \notin failing
        THEN parseMarkdown(htmlTransform(html, TRUE))
        ELSE document.markdown
  IN [document EXCEPT
        !.markdown = markdown,
        !.links = IF want("links") /\ "links" \notin failing
                  THEN "links" ELSE @,
        !.images = IF want("images") /\ "images" \notin failing
                   THEN "images" ELSE @]

executeTransformers(formats, document, failing) ==
  LET html == Coalesce(Coalesce(document.rawHtml, document.html), "")
      want(f) == Truthy(html) /\ hasFormatOfType(formats, f)
      markdown ==
        IF want("markdown") /\ ~Truthy(document.markdown)
             /\ "markdown" \notin failing
        THEN parseMarkdown(htmlTransform(html, TRUE))
        ELSE document.markdown
  IN [document EXCEPT
        !.markdown = markdown,
        !.html = IF want("html") THEN html ELSE @,
        !.links = IF want("links") /\ "links" \notin failing
                  THEN "links" ELSE @,
        !.images = IF want("images") /\ "images" \notin failing
                   THEN "images" ELSE @]

finalizeDocument(url, formats, engineResult, failing) ==
  executeTransformers(formats,
    [markdown |-> engineResult.markdown,
     rawHtml |-> engineResult.html,
     html |-> Undefined,
     links |-> Undefined,
     images |-> Undefined,
     sourceURL |-> url,
     statusCode |-> engineResult.statusCode],
    failing)

\* scrapeURL: rawHtml is deleted from a successful result unless requested.
StripRawHtml(document, formats) ==
  IF ~hasFormatOfType(formats, "rawHtml")
  THEN [document EXCEPT !.rawHtml = Undefined]
  ELSE document

HasField(document, f) == document[f] # Undefined


(***************************************************************************)
(* Crawl frontier helpers (crawlSite).                                     *)
(***************************************************************************)
Max(a, b) == IF a >= b THEN a ELSE b

Range(seq) == {seq[i] : i \in 1..Len(seq)}

Take(seq, n) == SubSeq(seq, 1, IF Len(seq) < n THEN Len(seq) ELSE n)

\* Number of path segments of a URL.
getURLDepth(url) == Len(url.path)

\* Absolute depth bound of a crawl whose seed is `url`.
getAdjustedMaxDepth(url, maxDepth) == getURLDepth(url) + maxDepth

\* Variant: the bound handed to the crawler is one level too deep.
CrawlMaxDepthOffByOne(seed, optMaxDepth) ==
  getAdjustedMaxDepth(seed, optMaxDepth + 1)

\* crawlSite: `const maxDepth = getAdjustedMaxDepth(url, options.maxDepth)`.
CrawlMaxDepth(seed, optMaxDepth) == getAdjustedMaxDepth(seed, optMaxDepth)

\* crawlSite: depth of a crawled URL relative to the seed.
RelativeDepth(url, seed) == Max(0, getURLDepth(url) - getURLDepth(seed))

ensureRawHtml(formats) ==
  IF hasFormatOfType(formats, "rawHtml") THEN formats
  ELSE formats \cup {"rawHtml"}

\* scrapeOptions.parse: the zod schema rejects a format outside the union.
ScrapeOptionsParse(formats) == formats \subseteq Formats

\* The frontier: the set of URLs ever enqueued, the FIFO queue, the record
\* of every push in order, and whether `enqueue` was ever called for a URL
\* that had already left the queue.
Frontier(d, q, l, r) ==
  [discovered |-> d, queue |-> q, log |-> l, reoffered |-> r]

\* Variant: `enqueue` without the `discovered.has(target)` test.
enqueueUnchecked(f, target, limit) ==
  IF Cardinality(f.discovered) >= limit THEN f
  ELSE Frontier(f.discovered \cup {target}, Append(f.queue, target),
                Append(f.log, target), f.reoffered)

\* crawlSite's `enqueue` closure.
enqueue(f, target, limit) ==
  IF target \in f.discovered
  THEN [f EXCEPT !.reoffered = @ \/ target \notin Range(f.queue)]
  ELSE IF Cardinality(f.discovered) >= limit THEN f
  ELSE Frontier(f.discovered \cup {target}, Append(f.queue, target),
                Append(f.log, target), f.reoffered)

\* Variant: the URL is taken from the end of the queue (`queue.pop()`).
QueuePop(queue) ==
  [url |-> queue[Len(queue)], rest |-> SubSeq(queue, 1, Len(queue) - 1)]

\* `queue.shift()`: the URL taken and the queue left.
QueueShift(queue) == [url |-> Head(queue), rest |-> Tail(queue)]

\* `urls.forEach(enqueue)`.
RECURSIVE EnqueueAll(_, _, _)
EnqueueAll(f, urls, limit) ==
  IF urls = <<>> THEN f
  ELSE EnqueueAll(enqueue(f, Head(urls), limit), Tail(urls), limit)

\* WebCrawler.filterLinks(links, limit, maxDepth): the links that parse,
\* that the crawl policy (patterns, host, robots) does not reject and that
\* lie within maxDepth, cut to `limit` entries, in their original order.
filterLinks(links, limit, maxDepth, rejected) ==
  Take(SelectSeq(links,
                 LAMBDA u : u.valid /\ u \notin rejected
                              /\ getURLDepth(u) <= maxDepth),
       limit)

looksLikeHtml(html) == Trim(html) \in {HtmlScript, HtmlNav, HtmlMain}

\* Variant: a failed scrape is not recorded.
RecordErrorDropped(errors, url, error) == errors

\* crawlSite: a failed scrape is recorded as {url, error}.
RecordError(errors, url, error) ==
  Append(errors, [url |-> url, error |-> error])

\* Variant: the page keeps the rawHtml the crawl asked the scrape for.
StripPageRawHtmlNever(document, pageFormats) == document

\* crawlSite: rawHtml is deleted from a page unless the caller asked for it.
StripPageRawHtml(document, pageFormats) ==
  IF ~hasFormatOfType(pageFormats, "rawHtml")
  THEN [document EXCEPT !.rawHtml = Undefined]
  ELSE document

\* URLs of the crawled site and the lists of links a page or sitemap yields.
CrawlUrls == {UrlRoot, UrlA, UrlAB, UrlABC, UrlPdf}
Seeds == {UrlRoot, UrlA}

RECURSIVE SeqsUpTo(_, _)
SeqsUpTo(S, n) ==
  IF n = 0 THEN {<<>>}
  ELSE LET shorter == SeqsUpTo(S, n - 1)
       IN shorter \cup {Append(q, x) : q \in shorter, x \in S}

LinkLists == SeqsUpTo(CrawlUrls, MaxLinks)

\* URL sets the crawl policy may reject in one filter call.
PolicyRejects == { {}, {UrlA} }

\* Formats of the nested scrapeOptions of a crawl request; the last one
\* names a format the schema does not know.
CrawlFormatChoices == { {"markdown"}, {"rawHtml", "links"}, {"screenshot"} }

(***************************************************************************)
(* Error classes as the orchestrator's catch clause tells them apart.      *)
(***************************************************************************)
IsEngineError(e) == e.name \in {"EngineError", "EngineUnsuccessfulError"}

IsAddFeatureError(e) == e.name = "AddFeatureError"

\* The errors of an abort: the scrape's own timer, or the external signal.
IsCancellation(e) ==
  e.name \in {"ScrapeJobTimeoutError", "AbortManagerThrownError"}

\* Variant: an unsuccessful engine is not among the recorded errors.
IsRecoverableButUnsuccessful(e) ==
  e.name \in {"EngineError", "SSLError", "DNSResolutionError",
              "PDFAntibotError", "DocumentAntibotError",
              "PDFInsufficientTimeError", "ProxySelectionError"}

\* Variant: a DNS failure is not among the recorded errors.
IsRecoverableButDns(e) ==
  IsEngineError(e)
    \/ e.name \in {"SSLError", "PDFAntibotError", "DocumentAntibotError",
                   "PDFInsufficientTimeError", "ProxySelectionError"}

\* Variant: the catch clause also records a scrape timeout and goes on.
IsRecoverableOrTimeout(e) ==
  IsEngineError(e)
    \/ e.name \in {"SSLError", "DNSResolutionError", "PDFAntibotError",
                   "DocumentAntibotError", "PDFInsufficientTimeError",
                   "ProxySelectionError", "ScrapeJobTimeoutError"}

IsRecoverable(e) ==
  IsEngineError(e)
    \/ e.name \in {"SSLError", "DNSResolutionError", "PDFAntibotError",
                   "DocumentAntibotError", "PDFInsufficientTimeError",
                   "ProxySelectionError"}

\* Variant: a further round is run after any recorded error.
ShouldRunAnotherRoundOnAnyError(e) == e # NoError

\* Variant: no further round is run.
ShouldRunAnotherRoundNever(e) == FALSE

\* After the engine loop of a round: a further round is run exactly when
\* the last recorded error is a feature escalation.
ShouldRunAnotherRound(e) == IsAddFeatureError(e)

(***************************************************************************)
(* What one engine attempt can produce: a result or a thrown error.        *)
(***************************************************************************)
Result(h, m, s) ==
  [kind |-> "result", html |-> h, markdown |-> m, statusCode |-> s,
   error |-> NoError]

Thrown(e) ==
  [kind |-> "throw", html |-> Undefined, markdown |-> Undefined,
   statusCode |-> 0, error |-> e]

\* specialtyScrapeCheck on the response Content-Type.
SpecialtyThrows == {AddFeatureError({"document"}), AddFeatureError({"pdf"})}

\* Inputs the environment supplies to an engine attempt.  A single scrape
\* (rich) draws from every body, status code and error; the scrapes of a
\* crawl draw from the smaller sets below.
CrawlBodies == {HtmlEmpty, HtmlMain}
CrawlStatusCodes == {200, 404}

BodiesIn(rich) == IF rich THEN HtmlBodies ELSE CrawlBodies
PdfBodiesIn(rich) == IF rich THEN PdfBodies ELSE {PdfText}
StatusCodesIn(rich) == IF rich THEN StatusCodes ELSE CrawlStatusCodes

FetchOutcomes(rich) ==
  {Result(h, Undefined, s) : h \in BodiesIn(rich), s \in StatusCodesIn(rich)}
    \cup {Thrown(e) : e \in IF rich THEN SpecialtyThrows ELSE {}}
    \cup {Thrown(Err(n)) :
            n \in IF rich
                  THEN {"InsecureConnectionError", "SSLError", "TypeError",
                        "ScrapeJobTimeoutError", "AbortManagerThrownError"}
                  ELSE {"SSLError", "ScrapeJobTimeoutError"}}

PdfOutcomes(flags, rich) ==
  {Result(c, c, s) : c \in PdfBodiesIn(rich), s \in StatusCodesIn(rich)}
    \cup {Thrown(Err(IF "pdf" \in flags THEN "PDFAntibotError"
                     ELSE "EngineUnsuccessfulError"))}
    \cup {Thrown(Err(n)) :
            n \in IF rich THEN {"PDFInsufficientTimeError", "Error"} ELSE {}}

PlaywrightOutcomes(rich) ==
  {Result(h, Undefined, s) :
     h \in BodiesIn(rich),
     s \in StatusCodesIn(rich) \cup (IF rich THEN {403} ELSE {})}
    \cup {Thrown(Err(n)) :
            n \in {"EngineError", "DNSResolutionError",
                   "ProxySelectionError", "ScrapeJobTimeoutError"}}

DocumentOutcomes(rich) ==
  {Result(c, Undefined, s) :
     c \in PdfBodiesIn(rich), s \in StatusCodesIn(rich)}
    \cup {Thrown(Err(n)) : n \in {"DocumentAntibotError", "EngineError"}}

scrapeURLWithEngine(engine, flags, rich) ==
  CASE engine = "fetch" -> FetchOutcomes(rich)
    [] engine = "pdf" -> PdfOutcomes(flags, rich)
    [] engine = "playwright" -> PlaywrightOutcomes(rich)
    [] engine = "document" -> DocumentOutcomes(rich)

Transformers == {"markdown", "links", "images"}

FailingIn(rich) == IF rich THEN SUBSET Transformers ELSE {{}}

(***************************************************************************)
(* State.                                                                  *)
(***************************************************************************)
VARIABLES
  mode,             \* "scrape": one POST /scrape; "crawl": one POST /crawl
  usePlaywright,    \* PLAYWRIGHT_MICROSERVICE_URL is configured
  \* one call of scrapeURL
  sPc,              \* "idle", "meta", "round", "engine", "roundEnd", "done"
  sUrl,             \* url argument
  sFormats,         \* options.formats
  featureFlags,     \* meta.featureFlags
  attempts,         \* outer rounds started
  fallbackList,     \* engine list of the current round
  idx,              \* position of the for loop in fallbackList
  enginesAttempted, \* engines tried in the current round
  lastError,        \* last error recorded in the current round
  attemptLog,       \* every engine attempt of this call, in order
  accepted,         \* accepted engine result and its failing transformers
  lastResult,       \* what the latest engine attempt returned, if it returned
  abortMeta,        \* options.timeout, meta.abortHandle and meta.abort
  response,         \* value scrapeURL returned
  thrown,           \* exception that escaped scrapeURL
  \* one call of crawlSite
  cPc,              \* "idle", "start", "sitemap", "loop", "scraping", "done"
  cSeed,            \* url argument
  cLimit,           \* options.limit
  cMaxDepth,        \* options.maxDepth
  cFormats,         \* options.scrapeOptions.formats
  frontier,         \* discovered set and queue (and the order of pushes)
  processed,        \* URLs dequeued and handed to scrapeURL
  currentUrl,       \* URL being scraped
  scrapeLog,        \* URLs handed to scrapeURL, in order
  pages,            \* documents of the successful scrapes
  errors,           \* {url, error} of the failed scrapes
  crawlResponse,    \* value crawlSite returned
  \* the fetch engine's conditional-GET cache and the calls that use it
  responseCache,    \* responseCache: URL -> entry
  fetchCalls,       \* calls of scrapeURLWithFetch, per caller
  fetchCount,       \* calls started so far
  \* one outbound request through a dispatcher
  connRequest,      \* who asks, the dispatcher, the addresses, the policy
  connOutcome,      \* "idle", "pending", "response" or the error raised
  libCall,          \* a call of a library function: its name and arguments
  libValue,         \* whether the call has returned, and its value
  \* the gatekeeper and its rules file
  cachedConfig,     \* cachedConfig of the gatekeeper module
  rulesFile,        \* what gatekeeper.rules.json holds at the moment
  gateFirst,        \* the first call of evaluateGatekeeper: input and result
  gateLast,         \* the latest call: input and result
  gateCalls,        \* calls made so far
  \* one sitemap walk (getLinksFromSitemap and its recursive calls)
  smPc,             \* "idle", "walking", "done"
  sitemapsHit,      \* the Set shared by every call of the walk
  smInFlight,       \* sitemap URL -> calls awaiting its download
  smFetched,        \* sitemap URL -> downloads started so far
  smCount,          \* page URLs handed to urlsHandler so far
  \* the rendering service: pageSemaphore and the requests of its routes
  permits,          \* Semaphore.permits
  semQueue,         \* Semaphore.queue: the waiting requests, in order
  reqPc,            \* request -> "new", "waiting", "holding", "closing"
                    \* (a page is open), "closingNoPage", "done" (handler
                    \* returned), "failed" (handler threw)
  reqRoute,         \* request -> the route it was posted to
  reqReleases,      \* request -> calls of release() by its handler
  semWaited,        \* requests that were queued, in order of arrival
  semGranted,       \* requests granted a permit from the queue, in order
  \* one call of scrapePDF
  pdfCall,          \* where the call is, and its options
  pdfTempFile,      \* tempFilePath: "none", "exists" or "deleted"
  pdfOutcome,       \* what the call returned or threw
  \* one call of robustFetch, its retries included
  rfCall,           \* where the call is, and the parameters of this try
  rfTryCount,       \* the tryCount the caller passed
  rfSignal,         \* abort signal: "none", or the kind of reason it
                    \* was aborted with
  rfLast,           \* how the latest request settled
  rfSent,           \* for each request sent, how the one before settled
  rfOutcome         \* what the call returned or threw

cfgVars == <<mode, usePlaywright>>

sVars ==
  <<sPc, sUrl, sFormats, featureFlags, attempts, fallbackList, idx,
    enginesAttempted, lastError, attemptLog, accepted, lastResult, abortMeta,
    response, thrown>>

cVars ==
  <<cPc, cSeed, cLimit, cMaxDepth, cFormats, frontier, processed, currentUrl,
    scrapeLog, pages, errors, crawlResponse>>

fetchVars == <<responseCache, fetchCalls, fetchCount>>

connVars == <<connRequest, connOutcome>>

callVars == <<libCall, libValue>>

gateVars == <<cachedConfig, rulesFile, gateFirst, gateLast, gateCalls>>

sitemapVars == <<sitemapsHit, smPc, smInFlight, smFetched, smCount>>

\* The components outside the scraping pipeline proper.
renderVars ==
  <<permits, semQueue, reqPc, reqRoute, reqReleases, semWaited, semGranted>>

pdfVars == <<pdfCall, pdfTempFile, pdfOutcome>>

rfVars == <<rfCall, rfTryCount, rfSignal, rfLast, rfSent, rfOutcome>>

extVars == <<sitemapVars, renderVars, pdfVars, rfVars>>

libVars == <<fetchVars, connVars, callVars, gateVars, extVars>>

vars == <<cfgVars, sVars, cVars, libVars>>

NoResponse == [pending |-> TRUE]
NotAccepted == [engine |-> "none", html |-> Undefined, failing |-> {}]
NoResult == [engine |-> "none", html |-> Undefined, statusCode |-> 0]
Success(doc) == [success |-> TRUE, document |-> doc]
Failure(e) == [success |-> FALSE, error |-> e]

(***************************************************************************)
(* scrapeURL, step by step.                                                *)
(***************************************************************************)
\* The caller invokes scrapeURL(id, url, options, internalOptions).
\* options.timeout (defined or not), the timer handle ("undefined", "armed"
\* or "cleared") and the abort manager ("none", "live" or "disposed").
NoMeta(timeout) ==
  [timeout |-> timeout, abortHandle |-> "undefined", abort |-> "none"]

\* The head of buildMetaObject: setTimeout if options.timeout is defined,
\* then new AbortManager.
ArmTimer(m) ==
  [m EXCEPT !.abortHandle = IF m.timeout THEN "armed" ELSE "undefined",
            !.abort = "live"]

\* The finally block of scrapeURL.
Finally(m) ==
  [m EXCEPT !.abortHandle = IF @ = "armed" THEN "cleared" ELSE @,
            !.abort = "disposed"]

\* scrapeURL's try block is left exactly when the call completes.
RunFinally ==
  abortMeta' = IF sPc' = "done" THEN Finally(abortMeta) ELSE abortMeta

CallScrapeURL(url, formats) ==
  /\ sPc' = "meta"
  /\ sUrl' = url
  /\ sFormats' = formats
  /\ featureFlags' = {}
  /\ attempts' = 0
  /\ fallbackList' = <<>>
  /\ idx' = 1
  /\ enginesAttempted' = <<>>
  /\ lastError' = NoError
  /\ attemptLog' = <<>>
  /\ accepted' = NotAccepted
  /\ lastResult' = NoResult
  /\ abortMeta' = NoMeta(abortMeta.timeout)
  /\ response' = NoResponse
  /\ thrown' = NoError

\* The caller has consumed the value of the call: its locals are gone.
DiscardScrapeCall ==
  /\ sPc' = "idle"
  /\ featureFlags' = {}
  /\ attempts' = 0
  /\ fallbackList' = <<>>
  /\ idx' = 1
  /\ enginesAttempted' = <<>>
  /\ lastError' = NoError
  /\ attemptLog' = <<>>
  /\ accepted' = NotAccepted
  /\ lastResult' = NoResult
  /\ abortMeta' = NoMeta(abortMeta.timeout)
  /\ response' = NoResponse
  /\ thrown' = NoError
  /\ UNCHANGED <<sUrl, sFormats>>

\* scrapeURL returns `result`: the try block's rawHtml strip, then finally.
ReturnFromScrape(result) ==
  /\ sPc' = "done"
  /\ response' =
       IF result.success
       THEN Success(StripRawHtml(result.document, sFormats))
       ELSE result

\* buildMetaObject, which runs before scrapeURL's try block: `new URL(url)`
\* in buildFeatureFlags throws on an unparsable URL.
BuildMeta ==
  /\ sPc = "meta"
  /\ IF sUrl.valid
     THEN /\ featureFlags' = buildFeatureFlags(sUrl)
          /\ sPc' = "round"
          /\ UNCHANGED thrown
     ELSE /\ thrown' = Err("TypeError")
          /\ sPc' = "done"
          /\ UNCHANGED featureFlags
  /\ abortMeta' = ArmTimer(abortMeta)
  /\ UNCHANGED <<cfgVars, libVars,
                 cVars, sUrl, sFormats, attempts, fallbackList,
                 idx, enginesAttempted, lastError, attemptLog, accepted,
                 lastResult, response>>

\* Variant: a fourth round is allowed.
HasRoundLeftOfFour(a) == a < 4

\* The test of `while (attempts < 3)`.
HasRoundLeft(a) == a < 3

\* Head of `while (attempts < 3)`.
RoundStart ==
  /\ sPc = "round"
  /\ IF HasRoundLeft(attempts)
     THEN /\ attempts' = attempts + 1
          /\ fallbackList' = buildFallbackList(featureFlags, usePlaywright)
          /\ idx' = 1
          /\ enginesAttempted' = <<>>
          /\ lastError' = NoError
          /\ sPc' = "engine"
          /\ UNCHANGED response
     ELSE /\ ReturnFromScrape(Failure(NoEnginesLeftError))
          /\ UNCHANGED <<attempts, fallbackList, idx, enginesAttempted,
                         lastError>>
  /\ UNCHANGED <<cfgVars, libVars,
                 cVars, sUrl, sFormats, featureFlags, attemptLog,
                 accepted, lastResult, thrown>>
  /\ RunFinally

\* The catch clause of one engine attempt.
CatchEngineError(e) ==
  IF IsAddFeatureError(e)
  THEN /\ featureFlags' = featureFlags \cup e.featureFlags
       /\ lastError' = e
       /\ sPc' = "roundEnd"
       /\ UNCHANGED <<idx, response>>
  ELSE IF IsRecoverable(e)
  THEN /\ lastError' = e
       /\ idx' = idx + 1
       /\ sPc' = IF idx + 1 > Len(fallbackList) THEN "roundEnd" ELSE "engine"
       /\ UNCHANGED <<featureFlags, response>>
  ELSE /\ ReturnFromScrape(Failure(e))
       /\ UNCHANGED <<featureFlags, lastError, idx>>

\* One iteration of `for (const {engine} of fallbackList)`.
EngineAttempt ==
  /\ sPc = "engine"
  /\ idx <= Len(fallbackList)
  /\ LET engine == fallbackList[idx] IN
     \E out \in scrapeURLWithEngine(engine, featureFlags, mode = "scrape") :
       /\ enginesAttempted' = Append(enginesAttempted, engine)
       /\ attemptLog' =
            Append(attemptLog,
                   [round |-> attempts, engine |-> engine,
                    escalated |-> out.kind = "throw"
                                    /\ IsAddFeatureError(out.error),
                    added |->
                      IF out.kind = "throw" /\ IsAddFeatureError(out.error)
                      THEN out.error.featureFlags ELSE {},
                    cancellation |->
                      IF out.kind = "throw" /\ IsCancellation(out.error)
                      THEN out.error ELSE NoError])
       /\ lastResult' =
            IF out.kind = "throw" THEN NoResult
            ELSE [engine |-> engine, html |-> out.html,
                  statusCode |-> out.statusCode]
       /\ IF out.kind = "throw"
          THEN /\ CatchEngineError(out.error)
               /\ UNCHANGED accepted
          ELSE IF IsAccepted(out, sFormats)
          THEN \E failing \in FailingIn(mode = "scrape") :
                 /\ accepted' = [engine |-> engine, html |-> out.html,
                                 failing |-> failing]
                 /\ ReturnFromScrape(
                      Success(finalizeDocument(sUrl, sFormats, out, failing)))
                 /\ UNCHANGED <<featureFlags, lastError, idx>>
          ELSE /\ CatchEngineError(Err("EngineUnsuccessfulError"))
               /\ UNCHANGED accepted
  /\ UNCHANGED <<cfgVars, libVars,
                 cVars, sUrl, sFormats, attempts, fallbackList,
                 thrown>>
  /\ RunFinally

\* After the for loop: another round, or the failure result.
RoundEnd ==
  /\ sPc = "roundEnd"
  /\ IF ShouldRunAnotherRound(lastError)
     THEN /\ sPc' = "round"
          /\ UNCHANGED response
     ELSE ReturnFromScrape(
            Failure(IF lastError # NoError THEN lastError
                    ELSE NoEnginesLeftError))
  /\ UNCHANGED <<cfgVars, libVars,
                 cVars, sUrl, sFormats, featureFlags, attempts,
                 fallbackList, idx, enginesAttempted, lastError, attemptLog,
                 accepted, lastResult, thrown>>
  /\ RunFinally

(***************************************************************************)
(* POST /scrape: scrapeSingle calls scrapeURL with the request's options.  *)
(***************************************************************************)
scrapeSingle ==
  /\ mode = "scrape"
  /\ sPc = "idle"
  /\ CallScrapeURL(sUrl, sFormats)
  /\ UNCHANGED <<cfgVars, libVars, cVars>>

(***************************************************************************)
(* POST /crawl: crawlSite, step by step.                                   *)
(***************************************************************************)
CrawlStats ==
  [discovered |-> Cardinality(frontier.discovered),
   processed |-> processed,
   succeeded |-> Len(pages),
   failed |-> Len(errors)]

\* Option parsing and `enqueue(url)`; a ZodError goes to the outer catch.
CrawlStart ==
  /\ mode = "crawl"
  /\ cPc = "start"
  /\ IF ScrapeOptionsParse(cFormats)
     THEN /\ frontier' = enqueue(frontier, cSeed, cLimit)
          /\ cPc' = "sitemap"
          /\ UNCHANGED crawlResponse
     ELSE /\ crawlResponse' = Failure(Err("ZodError"))
          /\ cPc' = "done"
          /\ UNCHANGED frontier
  /\ UNCHANGED <<cfgVars, libVars, sVars, cSeed, cLimit, cMaxDepth, cFormats,
                 processed, currentUrl, scrapeLog, pages, errors>>

\* crawler.tryGetSitemap(urls => urls.forEach(enqueue)): the sitemap's URLs
\* (none when there is no sitemap or its fetch fails) pass the link filter
\* and are enqueued in order.
CrawlSitemap ==
  /\ cPc = "sitemap"
  /\ \E urls \in LinkLists, rejected \in PolicyRejects :
         frontier' =
           EnqueueAll(frontier,
                      filterLinks(urls, cLimit,
                                  CrawlMaxDepth(cSeed, cMaxDepth), rejected),
                      cLimit)
  /\ cPc' = "loop"
  /\ UNCHANGED <<cfgVars, libVars, sVars, cSeed, cLimit, cMaxDepth, cFormats,
                 processed, currentUrl, scrapeLog, pages, errors,
                 crawlResponse>>

\* Loop head and `queue.shift()`, `processed += 1`, call of scrapeURL with
\* rawHtml added to the formats.
CrawlDequeue ==
  /\ cPc = "loop"
  /\ Len(frontier.queue) > 0
  /\ processed < cLimit
  /\ currentUrl' = QueueShift(frontier.queue).url
  /\ frontier' = [frontier EXCEPT !.queue = QueueShift(@).rest]
  /\ processed' = processed + 1
  /\ scrapeLog' = Append(scrapeLog, QueueShift(frontier.queue).url)
  /\ CallScrapeURL(QueueShift(frontier.queue).url, ensureRawHtml(cFormats))
  /\ cPc' = "scraping"
  /\ UNCHANGED <<cfgVars, libVars,
                 cSeed, cLimit, cMaxDepth, cFormats, pages, errors,
                 crawlResponse>>

\* Link expansion of a crawled page: nothing is enqueued unless the body is
\* HTML-like, the limit leaves room and the page is above maxDepth.  The
\* extracted links are used by the filter call only, so they are drawn there.
ExpandLinks(html, isTextHtml) ==
  IF Truthy(html) /\ (isTextHtml \/ looksLikeHtml(html))
  THEN LET relativeDepth == RelativeDepth(currentUrl, cSeed)
           remaining == Max(0, cLimit - Cardinality(frontier.discovered))
       IN IF remaining > 0 /\ relativeDepth < cMaxDepth
          THEN \E links \in LinkLists, rejected \in PolicyRejects :
                 frontier' =
                   EnqueueAll(frontier,
                              filterLinks(links, remaining,
                                          CrawlMaxDepth(cSeed, cMaxDepth),
                                          rejected),
                              cLimit)
          ELSE frontier' = frontier
  ELSE frontier' = frontier

\* Variant: a failed scrape fails the crawl.
CrawlRecordFailureAbort ==
  /\ crawlResponse' = Failure(response.error)
  /\ cPc' = "done"
  /\ UNCHANGED <<frontier, pages, errors>>

\* `if (!result.success) { errors.push(...); continue; }`.
CrawlRecordFailure ==
  /\ errors' = RecordError(errors, currentUrl, response.error)
  /\ cPc' = "loop"
  /\ UNCHANGED <<frontier, pages, crawlResponse>>

\* The rest of the loop body, once scrapeURL has completed.  The document's
\* metadata.contentType is read here only, so whether it names text/html is
\* drawn here.
CrawlOnResult ==
  /\ cPc = "scraping"
  /\ sPc = "done"
  /\ IF thrown # NoError
     THEN /\ crawlResponse' = Failure(thrown)
          /\ cPc' = "done"
          /\ UNCHANGED <<frontier, pages, errors>>
     ELSE IF ~response.success
     THEN CrawlRecordFailure
     ELSE LET doc == response.document
              html == Coalesce(Coalesce(doc.rawHtml, doc.html), "")
          IN /\ \E isTextHtml \in BOOLEAN : ExpandLinks(html, isTextHtml)
             /\ pages' = Append(pages, StripPageRawHtml(doc, cFormats))
             /\ cPc' = "loop"
             /\ UNCHANGED <<errors, crawlResponse>>
  /\ DiscardScrapeCall
  /\ UNCHANGED <<cfgVars, libVars,
                 cSeed, cLimit, cMaxDepth, cFormats, processed,
                 currentUrl, scrapeLog>>

\* The loop ends: the queue is empty or `processed` reached the limit.
CrawlFinish ==
  /\ cPc = "loop"
  /\ ~(Len(frontier.queue) > 0 /\ processed < cLimit)
  /\ crawlResponse' =
       [success |-> TRUE, pages |-> pages, errors |-> errors,
        stats |-> CrawlStats]
  /\ cPc' = "done"
  /\ UNCHANGED <<cfgVars, libVars,
                 sVars, cSeed, cLimit, cMaxDepth, cFormats, frontier,
                 processed, currentUrl, scrapeLog, pages, errors>>

(***************************************************************************)
(* The routes: what POST /scrape and POST /crawl answer for the value of   *)
(* scrapeSingle / crawlSite.                                                *)
(***************************************************************************)
PublicError(code, message) == [code |-> code, message |-> message]

\* The error classes that carry a code of their own (error.ts).
IsTransportableError(e) ==
  e.name \in {"ScrapeJobTimeoutError", "SSLError", "DNSResolutionError",
              "PDFAntibotError", "DocumentAntibotError",
              "PDFInsufficientTimeError", "ProxySelectionError",
              "InsecureConnectionError"}

toPublicError(error) ==
  IF error.name = "CrawlDenialError"
  THEN PublicError(error.name, "Crawl denied by policy.")
  ELSE IF IsTransportableError(error)
  THEN PublicError(error.name, "error.message")
  ELSE IF error.name \in {"EngineUnsuccessfulError", "NoEnginesLeftError"}
  THEN PublicError("SCRAPE_FAILED", "Scrape failed to produce usable content.")
  ELSE PublicError("INTERNAL_ERROR", "Internal server error.")

\* The 502 answer of both routes for a {success: false, error} value.
RouteFailure(error, exposeDetails, exposeStack) ==
  [status |-> 502,
   body |-> [success |-> FALSE,
             error |-> IF exposeDetails /\ exposeStack
                       THEN [code |-> toPublicError(error).code,
                             message |-> toPublicError(error).message,
                             stack |-> "stack"]
                       ELSE toPublicError(error)]]

\* Both routes end with `return result` for a successful value.
registerScrapeRoutes(result, exposeDetails, exposeStack) ==
  IF ~result.success
  THEN RouteFailure(result.error, exposeDetails, exposeStack)
  ELSE [status |-> 200, body |-> result]

registerCrawlRoutes(result, exposeDetails, exposeStack) ==
  IF ~result.success
  THEN RouteFailure(result.error, exposeDetails, exposeStack)
  ELSE [status |-> 200, body |-> result]

(***************************************************************************)
(* The fetch engine and its conditional-GET cache (scrapeURLWithFetch).    *)
(* A call reads the cache, sends the request, and handles the response     *)
(* when it arrives; calls of different scrapes interleave at the await.    *)
(***************************************************************************)
Fetchers == {"f1", "f2"}

FetchUrls == {UrlRoot, UrlA}

\* `status?: number` that is absent.
NoStatus == 0

CacheEntry(e, l, b, c, s) ==
  [etag |-> e, lastModified |-> l, body |-> b, contentType |-> c,
   status |-> s]

\* `responseCache.get(url)` of a URL that has no entry: every `cached?.x`
\* is undefined.
NoEntry == CacheEntry(Undefined, Undefined, Undefined, Undefined, NoStatus)

ServerResponse(s, b, e, l, c) ==
  [status |-> s, body |-> b, etag |-> e, lastModified |-> l,
   contentType |-> c]

\* The validators a response carries: none, an ETag, or Last-Modified.
Validators ==
  {<<Undefined, Undefined>>, <<"e1", Undefined>>, <<Undefined, "t1">>}

\* Whether the request carries If-None-Match or If-Modified-Since: from the
\* caller's headers or attached from the cache entry.
IsConditionalRequest(cached, callerConditional) ==
  callerConditional \/ Truthy(cached.etag) \/ Truthy(cached.lastModified)

\* What the server may answer; 304 only to a conditional request.  UrlA is
\* a static page served without validators; UrlRoot may be anything.
ServerResponses(url, conditional) ==
  (IF url = UrlA
   THEN {ServerResponse(200, HtmlMain, Undefined, Undefined, "text/html")}
   ELSE {ServerResponse(200, b, v[1], v[2], "text/html") :
           b \in {HtmlEmpty, HtmlMain}, v \in Validators}
          \cup {ServerResponse(404, HtmlNav, "e1", Undefined, "text/html"),
                ServerResponse(200, PdfText, "e1", Undefined,
                               "application/pdf")})
    \cup (IF conditional
          THEN {ServerResponse(304, HtmlEmpty, v[1], v[2], Undefined) :
                  v \in Validators}
          ELSE {})

AnyServerResponse == UNION {ServerResponses(u, TRUE) : u \in FetchUrls}

\* `x.status === 304 && cached?.body`.
ServedFromCache(cached, resp) == resp.status = 304 /\ Truthy(cached.body)

\* What scrapeURLWithFetch returns or throws for a response.
FetchReturnValue(cached, resp) ==
  IF ServedFromCache(cached, resp)
  THEN Result(cached.body, Undefined,
              IF cached.status # NoStatus THEN cached.status ELSE 304)
  ELSE IF resp.contentType = "application/pdf"
  THEN Thrown(AddFeatureError({"pdf"}))
  ELSE Result(resp.body, Undefined, resp.status)

\* Variant: a response without validators keeps the stored ones.
FetchCacheWriteKeepValidators(cache, url, cached, resp) ==
  IF resp.status = 304 /\ Truthy(cached.body) THEN cache
  ELSE [cache EXCEPT
          ![url] = [etag |-> IF resp.etag # Undefined THEN resp.etag
                             ELSE cache[url].etag,
                    lastModified |->
                      IF resp.lastModified # Undefined THEN resp.lastModified
                      ELSE cache[url].lastModified,
                    body |-> resp.body,
                    contentType |-> resp.contentType,
                    status |-> resp.status]]

\* `responseCache.set(url, {...})`, skipped when served from the cache.
FetchCacheWrite(cache, url, cached, resp) ==
  IF ServedFromCache(cached, resp) THEN cache
  ELSE [cache EXCEPT
          ![url] = CacheEntry(resp.etag, resp.lastModified, resp.body,
                              resp.contentType, resp.status)]

\* One call: where it is, its URL, the entry it read before sending,
\* whether the caller's headers are conditional, whether no other call of
\* the URL was in flight while it was, the status the server answered, and
\* what the call returned.
FetchCall(pc, url, cached, callerConditional, alone, served, ret) ==
  [pc |-> pc, url |-> url, cached |-> cached,
   callerConditional |-> callerConditional, alone |-> alone,
   served |-> served, ret |-> ret]

IdleCall ==
  FetchCall("idle", UrlRoot, NoEntry, FALSE, TRUE, NoStatus, Thrown(NoError))

InFlight(call, url) == call.pc = "sent" /\ call.url = url

serviceVars == <<cfgVars, sVars, cVars>>

fetchOthers == <<serviceVars, connVars, callVars, gateVars, extVars>>

\* The call reads the cache and sends the request (`await undici.fetch`).
FetchSend(p, url, callerConditional) ==
  /\ fetchCalls[p].pc = "idle"
  /\ fetchCount < MaxFetches
  /\ fetchCount' = fetchCount + 1
  /\ fetchCalls' =
       [q \in Fetchers |->
          IF q = p
          THEN FetchCall("sent", url, responseCache[url], callerConditional,
                         \A r \in Fetchers \ {p} :
                           ~InFlight(fetchCalls[r], url),
                         NoStatus, Thrown(NoError))
          ELSE IF InFlight(fetchCalls[q], url)
          THEN [fetchCalls[q] EXCEPT !.alone = FALSE]
          ELSE fetchCalls[q]]
  /\ UNCHANGED <<fetchOthers, responseCache>>

\* The response arrives: served from the cache, or stored and returned.
FetchReceive(p, resp) ==
  /\ fetchCalls[p].pc = "sent"
  /\ LET call == fetchCalls[p] IN
       /\ resp \in ServerResponses(
                     call.url,
                     IsConditionalRequest(call.cached,
                                          call.callerConditional))
       /\ responseCache' =
            FetchCacheWrite(responseCache, call.url, call.cached, resp)
       /\ fetchCalls' =
            [fetchCalls EXCEPT
               ![p] = [call EXCEPT
                         !.pc = "done",
                         !.served = resp.status,
                         !.ret = FetchReturnValue(call.cached, resp)]]
  /\ UNCHANGED <<fetchOthers, fetchCount>>

\* The request fails (network error): the error is rethrown.
FetchFail(p) ==
  /\ fetchCalls[p].pc = "sent"
  /\ fetchCalls' =
       [fetchCalls EXCEPT
          ![p] = [@ EXCEPT !.pc = "done", !.ret = Thrown(Err("TypeError"))]]
  /\ UNCHANGED <<fetchOthers, responseCache, fetchCount>>

\* The caller has taken the value of the call.
FetchDone(p) ==
  /\ fetchCalls[p].pc = "done"
  /\ fetchCalls' = [fetchCalls EXCEPT ![p] = IdleCall]
  /\ UNCHANGED <<fetchOthers, responseCache, fetchCount>>

FetchStart ==
  /\ responseCache = [u \in FetchUrls |-> NoEntry]
  /\ fetchCalls = [p \in Fetchers |-> IdleCall]
  /\ fetchCount = 0

\* No request is being served.
ServiceIdle ==
  /\ mode = "idle"
  /\ usePlaywright = FALSE
  /\ sPc = "idle"
  /\ sUrl = UrlRoot
  /\ sFormats = {}
  /\ featureFlags = {}
  /\ attempts = 0
  /\ fallbackList = <<>>
  /\ idx = 1
  /\ enginesAttempted = <<>>
  /\ lastError = NoError
  /\ attemptLog = <<>>
  /\ accepted = NotAccepted
  /\ lastResult = NoResult
  /\ abortMeta = NoMeta(FALSE)
  /\ response = NoResponse
  /\ thrown = NoError
  /\ cPc = "idle"
  /\ cSeed = UrlRoot
  /\ cLimit = 1
  /\ cMaxDepth = 0
  /\ cFormats = {}
  /\ frontier = Frontier({}, <<>>, <<>>, FALSE)
  /\ processed = 0
  /\ currentUrl = UrlRoot
  /\ scrapeLog = <<>>
  /\ pages = <<>>
  /\ errors = <<>>
  /\ crawlResponse = NoResponse


(***************************************************************************)
(* The dispatchers (safeFetch, robustFetch): one outbound request and the  *)
(* security check run on its connection.                                   *)
(***************************************************************************)
SecureDispatchers ==
  {"secureDispatcher", "secureDispatcherSkipTlsVerification",
   "secureDispatcherNoCookies", "secureDispatcherNoCookiesSkipTlsVerification"}

RobustAgents == {"robustAgent", "robustAgentNoLookup"}

getSecureDispatcher(skipTlsVerification) ==
  IF skipTlsVerification THEN "secureDispatcherSkipTlsVerification"
  ELSE "secureDispatcher"

getSecureDispatcherNoCookies(skipTlsVerification) ==
  IF skipTlsVerification THEN "secureDispatcherNoCookiesSkipTlsVerification"
  ELSE "secureDispatcherNoCookies"

\* robustFetch: `dispatcher: useCacheableLookup ? robustAgent :
\* robustAgentNoLookup`.
robustFetchDispatcher(useCacheableLookup) ==
  IF useCacheableLookup THEN "robustAgent" ELSE "robustAgentNoLookup"

\* Who issues a request and through which dispatcher: the fetch engine,
\* the robots.txt fetch, the file download (PDF, sitemap), the call of the
\* rendering service, and a user of the no-cookies dispatchers.
OutboundRequests ==
  {[by |-> "fetch", dispatcher |-> getSecureDispatcher(skip)] :
     skip \in BOOLEAN}
    \cup {[by |-> "robots", dispatcher |-> getSecureDispatcher(FALSE)]}
    \cup {[by |-> "download", dispatcher |-> getSecureDispatcher(skip)] :
            skip \in BOOLEAN}
    \cup {[by |-> "render", dispatcher |-> robustFetchDispatcher(lookup)] :
            lookup \in BOOLEAN}
    \cup {[by |-> "noCookies",
           dispatcher |-> getSecureDispatcherNoCookies(skip)] :
            skip \in BOOLEAN}

\* A socket's remoteAddress: absent, a string that is no IP address, or an
\* IP address in one of ipaddr.js's ranges.
Address(valid, range) == [valid |-> valid, range |-> range]
NoAddress == Address(FALSE, Undefined)
NotAnIP == Address(FALSE, "hostname")
IPRanges ==
  {"unicast", "loopback", "linkLocal", "private", "multicast", "reserved"}
RemoteAddresses ==
  {NoAddress, NotAnIP} \cup {Address(TRUE, r) : r \in IPRanges}

\* The proxy the secure dispatchers tunnel through, if PROXY_SERVER is set.
ProxyAddresses == {NoAddress, Address(TRUE, "unicast"),
                   Address(TRUE, "private")}

\* Variant: only loopback addresses count as private.
isIPPrivateLoopbackOnly(address) == address.valid /\ address.range = "loopback"

isIPPrivate(address) == address.valid /\ address.range # "unicast"

\* The address the socket is connected to: the proxy for a ProxyAgent,
\* else the target.
SocketRemoteAddress(req) ==
  IF req.dispatcher \in SecureDispatchers /\ req.proxy # NoAddress
  THEN req.proxy
  ELSE req.target

\* attachSecurityCheck: the `connect` handler of the secure dispatchers.
attachSecurityCheck(req) ==
  LET remoteAddress == SocketRemoteAddress(req)
  IN IF req.dispatcher \in SecureDispatchers
          /\ remoteAddress # NoAddress
          /\ isIPPrivate(remoteAddress)
          /\ ~req.allowLocalWebhooks
     THEN "InsecureConnectionError"
     ELSE "response"

NoRequest ==
  [by |-> "none", dispatcher |-> "none", target |-> NoAddress,
   proxy |-> NoAddress, allowLocalWebhooks |-> FALSE]

ConnIdle == connRequest = NoRequest /\ connOutcome = "idle"

connOthers == <<serviceVars, fetchVars, callVars, gateVars, extVars>>

\* A request is issued.
ConnRequest(r, target, proxy, allowLocalWebhooks) ==
  /\ connOutcome = "idle"
  /\ connRequest' =
       [by |-> r.by, dispatcher |-> r.dispatcher, target |-> target,
        proxy |-> proxy, allowLocalWebhooks |-> allowLocalWebhooks]
  /\ connOutcome' = "pending"
  /\ UNCHANGED connOthers

\* The socket connects: the check runs, and the response is handed back
\* unless the socket was destroyed.
ConnConnect ==
  /\ connOutcome = "pending"
  /\ connOutcome' = attachSecurityCheck(connRequest)
  /\ UNCHANGED <<connOthers, connRequest>>

(***************************************************************************)
(* Library functions called with arbitrary arguments.                      *)
(***************************************************************************)
NoCall == [fn |-> "none"]
NotReturned == [returned |-> FALSE]
Returned(v) == [returned |-> TRUE, value |-> v]

CallIdle == libCall = NoCall /\ libValue = NotReturned

callOthers == <<serviceVars, fetchVars, connVars, gateVars, extVars>>

(***************************************************************************)
(* isUrlAllowedByRobots.  A URL is its path followed by "/" if it ends in  *)
(* a slash; the parsed robots.txt is the table of its isAllowed verdicts.  *)
(***************************************************************************)
MaxAgents == 2

RobotsUrls == {<<"/path">>, <<"/path", "/">>}
UserAgents == {"FireCrawlAgent", "FirecrawlAgent"}
Verdicts == {"true", "false", "null", "undefined"}

UserAgentLists ==
  UNION {[1..n -> UserAgents] : n \in 0..MaxAgents}

NoRobots == [present |-> FALSE]
Robots ==
  {NoRobots}
    \cup {[present |-> TRUE, isAllowed |-> t] :
            t \in [RobotsUrls \X UserAgents -> Verdicts]}

endsWithSlash(url) == url # <<>> /\ url[Len(url)] = "/"

\* Variant: the verdict of one agent without the trailing-slash check.
AgentAllowsNoSlashCheck(url, robots, userAgent) ==
  robots.isAllowed[<<url, userAgent>>] # "false"

\* The body of the loop for one agent: the value of isAllowed at its end.
AgentAllows(url, robots, userAgent) ==
  LET first == robots.isAllowed[<<url, userAgent>>]
      isAllowed == IF first \in {"null", "undefined"} THEN "true" ELSE first
  IN IF isAllowed = "true" /\ ~endsWithSlash(url)
     THEN LET second == robots.isAllowed[<<Append(url, "/"), userAgent>>]
              isAllowedWithSlash ==
                IF second \in {"null", "undefined"} THEN "true" ELSE second
          IN isAllowedWithSlash # "false"
     ELSE isAllowed = "true"

RECURSIVE AnyAgentAllows(_, _, _)
AnyAgentAllows(url, robots, userAgents) ==
  IF userAgents = <<>> THEN FALSE
  ELSE IF AgentAllows(url, robots, Head(userAgents)) THEN TRUE
  ELSE AnyAgentAllows(url, robots, Tail(userAgents))

isUrlAllowedByRobots(url, robots, userAgents) ==
  IF ~robots.present THEN TRUE
  ELSE AnyAgentAllows(url, robots, userAgents)

RobotsCall(url, robots, userAgents) ==
  /\ libCall = NoCall
  /\ libCall' = [fn |-> "isUrlAllowedByRobots", url |-> url,
                 robots |-> robots, userAgents |-> userAgents]
  /\ UNCHANGED <<callOthers, libValue>>

RobotsReturn ==
  /\ libCall.fn = "isUrlAllowedByRobots"
  /\ ~libValue.returned
  /\ libValue' =
       Returned(isUrlAllowedByRobots(libCall.url, libCall.robots,
                                     libCall.userAgents))
  /\ UNCHANGED <<callOthers, libCall>>

(***************************************************************************)
(* extractLinks / extractImages.  A URL or attribute value is the sequence *)
(* of its parts: scheme, authority, path segments; null is Null.           *)
(***************************************************************************)
MaxAttrs == 3

Null == <<"null">>
Schemes == {"https:", "data:"}
PathSegments == {"/a", "/dir", "/page", "/b"}

\* page.url(): the base every attribute is resolved against.
FinalUrl == <<"https:", "//example.com", "/dir", "/page">>

\* The href / src attributes of the elements, in document order.
AttrValues ==
  {<<"https:", "//example.com", "/a">>,   \* absolute
   <<"HTTPS:", "//EXAMPLE.com", "/a">>,   \* absolute, not normalised
   <<"/a">>,                              \* relative to the root
   <<"b">>,                               \* relative to the directory
   <<>>,                                  \* empty or missing
   <<"https:", "//[">>,                   \* unparsable
   <<"data:", "image/png;base64,AA">>}    \* data URI

AttrLists == UNION {[1..n -> AttrValues] : n \in 0..MaxAttrs}

\* The URL parser lowercases the scheme and the host.
Normalise(part) ==
  CASE part = "HTTPS:" -> "https:"
    [] part = "//EXAMPLE.com" -> "//example.com"
    [] OTHER -> part

\* new URL(value, base).toString(), or null when it throws.
toAbsoluteUrl(base, value) ==
  IF value = <<>> THEN base
  ELSE IF Normalise(Head(value)) \in Schemes
  THEN IF Len(value) >= 2 /\ value[2] = "//["
       THEN Null
       ELSE [i \in 1..Len(value) |->
               IF i <= 2 THEN Normalise(value[i]) ELSE value[i]]
  ELSE IF Head(value) \in PathSegments
  THEN SubSeq(base, 1, 2) \o value
  ELSE SubSeq(base, 1, Len(base) - 1) \o <<"/" \o Head(value)>>

startsWithData(value) == value # <<>> /\ Head(value) = "data:"

InSeq(x, s) == \E i \in 1..Len(s) : s[i] = x

\* Variant: null is dropped but repeated items are kept.
RECURSIVE uniqueKeepRepeats(_)
uniqueKeepRepeats(items) ==
  IF items = <<>> THEN <<>>
  ELSE LET rest == uniqueKeepRepeats(SubSeq(items, 1, Len(items) - 1))
           item == items[Len(items)]
       IN IF item # Null THEN Append(rest, item) ELSE rest

\* unique: the items added to a Set in order, read back in insertion order.
RECURSIVE unique(_)
unique(items) ==
  IF items = <<>> THEN <<>>
  ELSE LET seen == unique(SubSeq(items, 1, Len(items) - 1))
           item == items[Len(items)]
       IN IF item # Null /\ ~InSeq(item, seen) THEN Append(seen, item)
          ELSE seen

extractLinks(hrefs, baseUrl) ==
  unique([i \in 1..Len(hrefs) |-> toAbsoluteUrl(baseUrl, hrefs[i])])

extractImages(srcs, baseUrl, removeBase64) ==
  unique([i \in 1..Len(srcs) |->
            IF removeBase64 /\ startsWithData(srcs[i]) THEN Null
            ELSE toAbsoluteUrl(baseUrl, srcs[i])])

\* extractLinks takes no removeBase64: it is FALSE in its calls.
ExtractCall(fn, attrs, removeBase64) ==
  /\ libCall = NoCall
  /\ fn = "extractLinks" => ~removeBase64
  /\ libCall' = [fn |-> fn, attrs |-> attrs, baseUrl |-> FinalUrl,
                 removeBase64 |-> removeBase64]
  /\ UNCHANGED <<callOthers, libValue>>

ExtractReturn ==
  /\ libCall.fn \in {"extractLinks", "extractImages"}
  /\ ~libValue.returned
  /\ libValue' =
       Returned(IF libCall.fn = "extractLinks"
                THEN extractLinks(libCall.attrs, libCall.baseUrl)
                ELSE extractImages(libCall.attrs, libCall.baseUrl,
                                   libCall.removeBase64))
  /\ UNCHANGED <<callOthers, libCall>>

(***************************************************************************)
(* The gatekeeper (evaluateGatekeeper) and its lazily loaded rules file.   *)
(* An html is given by what cheerio and Buffer derive from it; numbers of  *)
(* characters and bytes are as they are, confidences are in hundredths.    *)
(***************************************************************************)
MaxGateCalls == 3

Field(r, f, default) == IF f \in DOMAIN r THEN r[f] ELSE default

defaultThresholds ==
  [min_html_bytes |-> 2048, min_visible_text_chars |-> 600,
   min_main_content_chars |-> 400, require_structured_data |-> FALSE]

\* What the rules file can hold: nothing readable, the JSON texts `null`
\* and `0`, or one of two rule sets.
RulesA ==
  [global |->
     [rules |->
        <<[id |-> "cf", block_class |-> "challenge",
           signals |-> <<[type |-> "contains_script",
                          value |-> "cf-challenge"]>>],
          [id |-> "login", block_class |-> "login",
           signals |-> <<[type |-> "status_in", value |-> {401, 403}],
                         [type |-> "redirect_to_login",
                          value |-> {"/login"}]>>]>>,
      thresholds |-> [min_html_bytes |-> 100]],
   domains |-> [h \in {"shop.example.com"} |-> [rules |-> <<>>]]]

RulesB ==
  [global |->
     [rules |->
        <<[id |-> "cf", block_class |-> "challenge",
           signals |-> <<[type |-> "contains_script",
                          value |-> "cf-challenge"]>>],
          [id |-> "forbidden", block_class |-> "soft_block",
           signals |-> <<[type |-> "status_in", value |-> {403}]>>,
           confidence |-> 60]>>]]

\* A rule set with a rule that has no signal, a rule that asks for the
\* absence of structured data, and a later rule of higher confidence.
RulesC ==
  [global |->
     [rules |->
        <<[id |-> "cf", block_class |-> "challenge",
           signals |-> <<[type |-> "contains_script",
                          value |-> "cf-challenge"]>>],
          [id |-> "any", block_class |-> "soft_block", signals |-> <<>>],
          [id |-> "bare", block_class |-> "thin",
           signals |-> <<[type |-> "has_structured_data", value |-> FALSE],
                         [type |-> "status_in", value |-> {200}]>>,
           confidence |-> 55],
          [id |-> "forbidden", block_class |-> "soft_block",
           signals |-> <<[type |-> "status_in", value |-> {403}]>>,
           confidence |-> 90]>>,
      thresholds |-> [require_structured_data |-> TRUE]]]

EmptyConfig == [x \in {} |-> x]

Parsed(truthy, isNull, value) ==
  [truthy |-> truthy, isNull |-> isNull, value |-> value]

NotLoaded == Parsed(FALSE, TRUE, EmptyConfig)

FileContents == {"unreadable", "null", "0", "rulesA", "rulesB", "rulesC"}

\* JSON.parse(fs.readFileSync(configPath)), or {} from the catch clause.
ReadConfig(file) ==
  CASE file = "unreadable" -> Parsed(TRUE, FALSE, EmptyConfig)
    [] file = "null" -> Parsed(FALSE, TRUE, EmptyConfig)
    [] file = "0" -> Parsed(FALSE, FALSE, EmptyConfig)
    [] file = "rulesA" -> Parsed(TRUE, FALSE, RulesA)
    [] file = "rulesB" -> Parsed(TRUE, FALSE, RulesB)
    [] file = "rulesC" -> Parsed(TRUE, FALSE, RulesC)

\* loadConfig: its value, which is also the new cachedConfig.
loadConfig(cached, file) ==
  IF cached.truthy THEN cached ELSE ReadConfig(file)

getDomainConfig(host, cfg) ==
  LET global == Field(cfg, "global", EmptyConfig)
      domainRules == Field(Field(cfg, "domains", EmptyConfig), host,
                           EmptyConfig)
      domainThresholds == Field(domainRules, "thresholds", EmptyConfig)
      globalThresholds == Field(global, "thresholds", EmptyConfig)
  IN [rules |-> Field(domainRules, "rules", Field(global, "rules", <<>>)),
      thresholds |->
        [t \in DOMAIN defaultThresholds |->
           Field(domainThresholds, t,
                 Field(globalThresholds, t, defaultThresholds[t]))]]

\* The pages: what Buffer.byteLength, getVisibleText and
\* detectStructuredData derive from the html, and the marker it includes.
Page(name, htmlBytes, visibleTextChars, mainChars, ld, includes) ==
  [name |-> name, htmlBytes |-> htmlBytes,
   visibleTextChars |-> visibleTextChars, mainChars |-> mainChars,
   hasStructuredData |-> ld, includes |-> includes]

GatePages ==
  {Page("challenge", 150, 10, 0, FALSE, {"cf-challenge"}),
   Page("article", 5000, 1000, 500, TRUE, {"application/ld+json"})}

NoOverride == [given |-> FALSE]
Overrides == {NoOverride, [given |-> TRUE, value |-> 5]}

GateInputs ==
  [html : GatePages, statusCode : {200, 403},
   finalUrl : {[host |-> "example.com", path |-> "/login"],
               [host |-> "shop.example.com", path |-> "/"]},
   title : {"Just a moment"}, mainContentChars : Overrides]

matchesSignal(signal, ctx) ==
  CASE signal.type = "contains_script" -> signal.value \in ctx.html.includes
    [] signal.type = "title_matches" -> signal.value = ctx.title
    [] signal.type = "status_in" -> ctx.statusCode \in signal.value
    [] signal.type = "redirect_to_login" -> ctx.finalUrl.path \in signal.value
    [] signal.type = "html_bytes_lt" -> ctx.htmlBytes < signal.value
    [] signal.type \in {"body_text_len_lt", "visible_text_len_lt"} ->
         ctx.visibleTextChars < signal.value
    [] signal.type = "main_content_len_lt" ->
         ctx.mainContentChars < signal.value
    [] signal.type = "has_structured_data" ->
         IF signal.value THEN "application/ld+json" \in ctx.html.includes
         ELSE "application/ld+json" \notin ctx.html.includes
    [] OTHER -> FALSE

Min(a, b) == IF a < b THEN a ELSE b

\* Variant: a rule fires as soon as one of its signals matches.
RuleEvidenceAnySignal(rule, ctx) ==
  LET n == Len(rule.signals)
  IN IF \E i \in 1..n : matchesSignal(rule.signals[i], ctx)
     THEN <<[ruleId |-> rule.id,
             signals |-> [i \in 1..n |-> rule.signals[i].type],
             blockClass |-> rule.block_class,
             confidence |->
               Field(rule, "confidence", Min(100, 50 + n * 10))]>>
     ELSE <<>>

\* The evidence of one rule, or none: `matchedSignals.length ===
\* rule.signals.length && matchedSignals.length > 0`.
RuleEvidence(rule, ctx) ==
  LET n == Len(rule.signals)
  IN IF n > 0 /\ \A i \in 1..n : matchesSignal(rule.signals[i], ctx)
     THEN <<[ruleId |-> rule.id,
             signals |-> [i \in 1..n |-> rule.signals[i].type],
             blockClass |-> rule.block_class,
             confidence |->
               Field(rule, "confidence", Min(100, 50 + n * 10))]>>
     ELSE <<>>

RECURSIVE RulesEvidence(_, _)
RulesEvidence(rules, ctx) ==
  IF rules = <<>> THEN <<>>
  ELSE RuleEvidence(Head(rules), ctx) \o RulesEvidence(Tail(rules), ctx)

\* evidence.sort((a, b) => b.confidence - a.confidence): stable.
RECURSIVE InsertByConfidence(_, _)
InsertByConfidence(sorted, e) ==
  IF sorted = <<>> THEN <<e>>
  ELSE IF Head(sorted).confidence >= e.confidence
  THEN <<Head(sorted)>> \o InsertByConfidence(Tail(sorted), e)
  ELSE <<e>> \o sorted

\* Variant: the evidence is left in the order of the rules.
SortByConfidenceKeepOrder(evidence) == evidence

RECURSIVE SortByConfidence(_)
SortByConfidence(evidence) ==
  IF evidence = <<>> THEN <<>>
  ELSE InsertByConfidence(
         SortByConfidence(SubSeq(evidence, 1, Len(evidence) - 1)),
         evidence[Len(evidence)])

ThinSignals(quality, t) ==
  (IF quality.htmlBytes < t.min_html_bytes
   THEN <<"html_bytes_lt">> ELSE <<>>)
    \o (IF quality.visibleTextChars < t.min_visible_text_chars
        THEN <<"visible_text_len_lt">> ELSE <<>>)
    \o (IF quality.mainContentChars < t.min_main_content_chars
        THEN <<"main_content_len_lt">> ELSE <<>>)
    \o (IF t.require_structured_data /\ ~quality.hasStructuredData
        THEN <<"missing_structured_data">> ELSE <<>>)

GateThrows == [threw |-> "TypeError"]

\* evaluateGatekeeper with the configuration loadConfig handed to it.
evaluateGatekeeper(input, cfg) ==
  IF cfg.isNull THEN GateThrows
  ELSE
  LET domainConfig == getDomainConfig(input.finalUrl.host, cfg.value)
      derivedMain == IF input.html.mainChars > 0 THEN input.html.mainChars
                     ELSE input.html.visibleTextChars
      mainChars == IF input.mainContentChars.given
                   THEN input.mainContentChars.value ELSE derivedMain
      quality ==
        [htmlBytes |-> input.html.htmlBytes,
         visibleTextChars |-> input.html.visibleTextChars,
         mainContentChars |-> mainChars,
         hasStructuredData |-> input.html.hasStructuredData,
         thresholds |-> domainConfig.thresholds]
      ctx ==
        [statusCode |-> input.statusCode, html |-> input.html,
         title |-> input.title, finalUrl |-> input.finalUrl,
         visibleTextChars |-> input.html.visibleTextChars,
         mainContentChars |-> mainChars, htmlBytes |-> input.html.htmlBytes]
      fired == SortByConfidence(RulesEvidence(domainConfig.rules, ctx))
      thinSignals == ThinSignals(quality, domainConfig.thresholds)
      thin == fired = <<>> /\ thinSignals # <<>>
      thinConfidence == Min(100, 40 + Len(thinSignals) * 15)
      blockClass == IF fired # <<>> THEN fired[1].blockClass
                    ELSE IF thin THEN "thin" ELSE "none"
  IN [threw |-> "nothing",
      blockClass |-> blockClass,
      confidence |-> IF fired # <<>> THEN fired[1].confidence
                     ELSE IF thin THEN thinConfidence ELSE 0,
      evidence |->
        IF thin
        THEN <<[ruleId |-> "content-thin", signals |-> thinSignals,
                blockClass |-> "thin", confidence |-> thinConfidence]>>
        ELSE fired,
      quality |-> quality,
      contentStatus |-> IF blockClass = "none" THEN "usable" ELSE blockClass]

NoGateCall == [made |-> FALSE]
GateCallRecord(input, result) ==
  [made |-> TRUE, input |-> input, result |-> result]

GateIdle ==
  /\ cachedConfig = NotLoaded
  /\ rulesFile = "unreadable"
  /\ gateFirst = NoGateCall
  /\ gateLast = NoGateCall
  /\ gateCalls = 0

gateOthers == <<serviceVars, fetchVars, connVars, callVars, extVars>>

\* The environment writes the rules file.
RulesFileWrite(content) ==
  /\ rulesFile # content
  /\ gateCalls < MaxGateCalls
  /\ rulesFile' = content
  /\ UNCHANGED <<gateOthers, cachedConfig, gateFirst, gateLast, gateCalls>>

\* One call of evaluateGatekeeper.
GateCall(input) ==
  /\ gateCalls < MaxGateCalls
  /\ LET cfg == loadConfig(cachedConfig, rulesFile)
         call == GateCallRecord(input, evaluateGatekeeper(input, cfg))
     IN /\ cachedConfig' = cfg
        /\ gateFirst' = IF gateFirst.made THEN gateFirst ELSE call
        /\ gateLast' = call
  /\ gateCalls' = gateCalls + 1
  /\ UNCHANGED <<gateOthers, rulesFile>>

(***************************************************************************)
(* specialtyScrapeCheck.  A header value is the sequence of its pieces:    *)
(* the media type as written, then what follows it; the empty string is    *)
(* the empty sequence.                                                     *)
(***************************************************************************)
documentTypes ==
  {"application/vnd.openxmlformats-officedocument.wordprocessingml.document",
   "application/vnd.openxmlformats-officedocument.spreadsheetml.sheet",
   "application/vnd.ms-excel",
   "application/msword",
   "application/rtf",
   "text/rtf",
   "application/vnd.oasis.opendocument.text"}

MediaTypes ==
  documentTypes \cup {"application/pdf", "Application/PDF", "text/html"}

AfterMediaType ==
  {<<>>, <<";">>, <<";", " charset=utf-8">>, <<" ">>, <<"x">>}

ContentTypes ==
  {<<>>} \cup {<<m>> \o rest : m \in MediaTypes, rest \in AfterMediaType}

HeaderNames == {"content-type", "Content-Type", "content-length"}

toLowerCase(name) == IF name = "Content-Type" THEN "content-type" ELSE name

\* The headers argument: undefined, or the entries of the record.
NoHeaders == <<[name |-> "undefined", value |-> <<>>]>>

HeaderRecords ==
  {NoHeaders}
    \cup {<<[name |-> n, value |-> v]>> : n \in HeaderNames,
                                           v \in ContentTypes}
    \cup {<<[name |-> "content-length", value |-> <<"12">>],
            [name |-> "Content-Type", value |-> v]>> : v \in ContentTypes}

\* Variant: a type matches only a value that is exactly that type.
startsWithWhole(value, prefix) == value = prefix

\* String.prototype.startsWith.
startsWith(value, prefix) ==
  Len(value) >= Len(prefix) /\ SubSeq(value, 1, Len(prefix)) = prefix

\* What specialtyScrapeCheck throws (NoError: it returns).
specialtyScrapeCheck(headers) ==
  LET found == {i \in 1..Len(headers) :
                  toLowerCase(headers[i].name) = "content-type"}
      contentType ==
        IF found = {} THEN <<>>
        ELSE headers[CHOOSE i \in found : \A j \in found : i <= j].value
      isDocument == \E type \in documentTypes : startsWith(contentType, <<type>>)
      isPdf == \/ contentType = <<"application/pdf">>
               \/ startsWith(contentType, <<"application/pdf", ";">>)
  IN IF contentType = <<>> THEN NoError
     ELSE IF isDocument THEN AddFeatureError({"document"})
     ELSE IF isPdf THEN AddFeatureError({"pdf"})
     ELSE NoError

SpecialtyCall(headers) ==
  /\ libCall = NoCall
  /\ libCall' = [fn |-> "specialtyScrapeCheck", headers |-> headers]
  /\ UNCHANGED <<callOthers, libValue>>

SpecialtyReturn ==
  /\ libCall.fn = "specialtyScrapeCheck"
  /\ ~libValue.returned
  /\ libValue' = Returned(specialtyScrapeCheck(libCall.headers))
  /\ UNCHANGED <<callOthers, libCall>>

(***************************************************************************)
(* The sitemap walk: getLinksFromSitemap.  A call runs its guard (limit,   *)
(* already hit, add) without awaiting, then awaits the download; when the  *)
(* download arrives it starts one call per listed sitemap, each of which   *)
(* runs its guard at once, in the order of the list.                       *)
(***************************************************************************)
SITEMAP_LIMIT == 3

MaxListed == 3

SitemapUrls == {"s1.xml", "s2.xml", "s3.xml.gz", "s4.xml"}

\* The sitemap URLs one sitemap lists, repeats and cycles included.
SitemapLists ==
  UNION {[1..n -> SitemapUrls] : n \in 0..MaxListed}

\* Variant: the guard does not look the URL up in the set.
sitemapGuardNoHasCheck(hit, sitemapUrl) ==
  IF Cardinality(hit) >= SITEMAP_LIMIT THEN "limit" ELSE "fetch"

\* The head of getLinksFromSitemap: what the call does with its URL.
sitemapGuard(hit, sitemapUrl) ==
  IF Cardinality(hit) >= SITEMAP_LIMIT THEN "limit"
  ELSE IF sitemapUrl \in hit THEN "seen"
  ELSE "fetch"

\* `urls.map(sitemapUrl => getLinksFromSitemap(...))`: the calls pass their
\* guards one after the other; the result is the set afterwards and the
\* URLs whose download was started, in order.
RECURSIVE startCalls(_, _)
startCalls(hit, urls) ==
  IF urls = <<>> THEN [hit |-> hit, started |-> <<>>]
  ELSE LET sitemapUrl == Head(urls)
           go == sitemapGuard(hit, sitemapUrl) = "fetch"
           rest == startCalls(IF go THEN hit \cup {sitemapUrl} ELSE hit,
                              Tail(urls))
       IN [hit |-> rest.hit,
           started |-> (IF go THEN <<sitemapUrl>> ELSE <<>>) \o rest.started]

Occurrences(urls, u) == Cardinality({i \in 1..Len(urls) : urls[i] = u})

SitemapIdle ==
  /\ smPc = "idle"
  /\ sitemapsHit = {}
  /\ smInFlight = [u \in SitemapUrls |-> 0]
  /\ smFetched = [u \in SitemapUrls |-> 0]
  /\ smCount = 0


sitemapOthers ==
  <<serviceVars, fetchVars, connVars, callVars, gateVars, renderVars,
    pdfVars, rfVars>>

\* The calls of `urls` are made.
SitemapStartCalls(urls) ==
  LET r == startCalls(sitemapsHit, urls)
  IN /\ sitemapsHit' = r.hit
     /\ smInFlight' =
          [u \in SitemapUrls |-> smInFlight[u] + Occurrences(r.started, u)]
     /\ smFetched' =
          [u \in SitemapUrls |-> smFetched[u] + Occurrences(r.started, u)]

\* The crawl calls getLinksFromSitemap on the root sitemap with a new Set.
SitemapWalk(root) ==
  /\ smPc = "idle"
  /\ smPc' = "walking"
  /\ SitemapStartCalls(<<root>>)
  /\ UNCHANGED <<sitemapOthers, smCount>>

\* A download arrives and is processed: `recurse` starts the listed
\* sitemaps, `process` hands the page URLs to urlsHandler.
SitemapFetched(u, listed, pageUrls) ==
  /\ smPc = "walking"
  /\ smInFlight[u] > 0
  /\ LET r == startCalls(sitemapsHit, listed)
     IN /\ sitemapsHit' = r.hit
        /\ smInFlight' =
             [v \in SitemapUrls |->
                smInFlight[v] + Occurrences(r.started, v)
                  - (IF v = u THEN 1 ELSE 0)]
        /\ smFetched' =
             [v \in SitemapUrls |-> smFetched[v] + Occurrences(r.started, v)]
  /\ smCount' = smCount + pageUrls
  /\ UNCHANGED <<sitemapOthers, smPc>>

\* A download fails, or answers 404 or another bad status: the call logs
\* and returns 0.
SitemapFetchFailed(u) ==
  /\ smPc = "walking"
  /\ smInFlight[u] > 0
  /\ smInFlight' = [smInFlight EXCEPT ![u] = @ - 1]
  /\ UNCHANGED <<sitemapOthers, smPc, sitemapsHit, smFetched, smCount>>

\* Every call has returned: the root call returns the count.
SitemapReturn ==
  /\ smPc = "walking"
  /\ \A u \in SitemapUrls : smInFlight[u] = 0
  /\ smPc' = "done"
  /\ UNCHANGED <<sitemapOthers, sitemapsHit, smInFlight, smFetched, smCount>>

(***************************************************************************)
(* The rendering service (playwright-service-ts): class Semaphore, the     *)
(* pageSemaphore and the handlers of POST /scrape, /scrape-stealth and     *)
(* /scrape-enhanced.                                                       *)
(***************************************************************************)
MAX_CONCURRENT_PAGES == 2

RenderRequests == {"r1", "r2", "r3", "r4"}

RenderRoutes == {"/scrape", "/scrape-stealth", "/scrape-enhanced"}

\* Semaphore.acquire by request r: take a permit or join the queue.
semAcquire(p, queue, r) ==
  IF p > 0
  THEN [permits |-> p - 1, queue |-> queue, granted |-> TRUE]
  ELSE [permits |-> p, queue |-> Append(queue, r), granted |-> FALSE]

\* Variant: the permit handed to the next waiter is not taken back.
semReleaseNoTake(p, queue) ==
  IF Len(queue) > 0
  THEN [permits |-> p + 1, queue |-> Tail(queue), next |-> <<Head(queue)>>]
  ELSE [permits |-> p + 1, queue |-> queue, next |-> <<>>]

\* Semaphore.release: `permits++`, then the head of the queue, if any,
\* takes the permit and is resolved.
semRelease(p, queue) ==
  IF Len(queue) > 0
  THEN [permits |-> p + 1 - 1, queue |-> Tail(queue),
        next |-> <<Head(queue)>>]
  ELSE [permits |-> p + 1, queue |-> queue, next |-> <<>>]

\* Whether the handler's `finally` reaches pageSemaphore.release().  In
\* POST /scrape, `page.close()` and `requestContext.close()` are awaited in
\* the same finally block before the release; in /scrape-enhanced they sit
\* in an inner finally whose exception the outer catch takes; in
\* /scrape-stealth there is nothing to close.
ReachesRelease(route, closeThrows) ==
  ~(route = "/scrape" /\ closeThrows)

\* Whether the handler ends by throwing out of its finally block.
HandlerThrows(route, closeThrows) == route = "/scrape" /\ closeThrows

RenderIdle ==
  /\ permits = MAX_CONCURRENT_PAGES
  /\ semQueue = <<>>
  /\ reqPc = [r \in RenderRequests |-> "new"]
  /\ reqRoute = [r \in RenderRequests |-> "/scrape"]
  /\ reqReleases = [r \in RenderRequests |-> 0]
  /\ semWaited = <<>>
  /\ semGranted = <<>>


renderOthers ==
  <<serviceVars, fetchVars, connVars, callVars, gateVars, sitemapVars,
    pdfVars, rfVars>>

\* A request is posted to a route and reaches `await
\* pageSemaphore.acquire()`.
RenderAcquire(r, route) ==
  /\ reqPc[r] = "new"
  /\ LET a == semAcquire(permits, semQueue, r)
     IN /\ permits' = a.permits
        /\ semQueue' = a.queue
        /\ reqPc' = [reqPc EXCEPT
                       ![r] = IF a.granted THEN "holding" ELSE "waiting"]
        /\ semWaited' = IF a.granted THEN semWaited ELSE Append(semWaited, r)
  /\ reqRoute' = [reqRoute EXCEPT ![r] = route]
  /\ UNCHANGED <<renderOthers, reqReleases, semGranted>>

\* The try block ends: the response was sent, or an error was caught and
\* answered with 500.  A Playwright page was opened on the way, or not
\* (stealth browser, or createContext / newPage threw).
RenderScrape(r, pageOpened) ==
  /\ reqPc[r] = "holding"
  /\ pageOpened => reqRoute[r] # "/scrape-stealth"
  /\ reqPc' = [reqPc EXCEPT
                 ![r] = IF pageOpened THEN "closing" ELSE "closingNoPage"]
  /\ UNCHANGED <<renderOthers, permits, semQueue, reqRoute, reqReleases,
                 semWaited, semGranted>>

\* The finally block: close the page and the context where there are any,
\* then release the permit.
RenderFinally(r, closeThrows) ==
  /\ reqPc[r] \in {"closing", "closingNoPage"}
  /\ closeThrows => reqPc[r] = "closing"
  /\ IF ReachesRelease(reqRoute[r], closeThrows)
     THEN LET rel == semRelease(permits, semQueue)
          IN /\ permits' = rel.permits
             /\ semQueue' = rel.queue
             /\ semGranted' = semGranted \o rel.next
             /\ reqPc' =
                  [q \in RenderRequests |->
                     IF q = r THEN "done"
                     ELSE IF rel.next = <<q>> THEN "holding"
                     ELSE reqPc[q]]
             /\ reqReleases' = [reqReleases EXCEPT ![r] = @ + 1]
     ELSE /\ reqPc' =
               [reqPc EXCEPT
                  ![r] = IF HandlerThrows(reqRoute[r], closeThrows)
                         THEN "failed" ELSE "done"]
          /\ UNCHANGED <<permits, semQueue, semGranted, reqReleases>>
  /\ UNCHANGED <<renderOthers, reqRoute, semWaited>>

(***************************************************************************)
(* scrapePDF.  In parse mode the PDF is downloaded to a temporary file,    *)
(* then checked, measured and parsed inside try / finally.                 *)
(***************************************************************************)
MILLISECONDS_PER_PAGE == 150

\* meta.abort.scrapeTimeout() in milliseconds; 0 stands for undefined.
ScrapeTimeouts == {0, 1000, 30000}

\* getPDFMaxPages(parsers); 0 stands for undefined.
PdfMaxPages == {0, 5}

\* pdfMetadata.numPages.
PdfNumPages == {1, 100}

PdfOptions ==
  [shouldParse : BOOLEAN, pdfFlag : BOOLEAN, scrapeTimeout : ScrapeTimeouts,
   maxPages : PdfMaxPages]

IdlePdfCall ==
  [pc |-> "idle", shouldParse |-> FALSE, pdfFlag |-> FALSE,
   scrapeTimeout |-> 0, maxPages |-> 0]

\* `ct && !ct.includes("application/pdf")`: what is thrown, if anything.
pdfContentTypeCheck(ct, pdfFlag) ==
  IF ct = "text/html"
  THEN (IF pdfFlag THEN Err("PDFAntibotError")
        ELSE Err("EngineUnsuccessfulError"))
  ELSE NoError

effectivePageCount(numPages, maxPages) ==
  IF maxPages # 0 THEN Min(numPages, maxPages) ELSE numPages

\* `effectivePageCount * MILLISECONDS_PER_PAGE > (scrapeTimeout() ??
\* Infinity)`.
insufficientTime(pageCount, scrapeTimeout) ==
  scrapeTimeout # 0 /\ pageCount * MILLISECONDS_PER_PAGE > scrapeTimeout

\* Variant: the temporary file is removed only when the call returns.
pdfFinallyOnReturnOnly(tempFile, outcome) ==
  IF outcome.kind = "throw" THEN tempFile ELSE "deleted"

\* The finally block: `await unlink(tempFilePath)`, a failure of which is
\* logged and swallowed.
pdfFinally(tempFile, outcome) == "deleted"

PdfIdle ==
  /\ pdfCall = IdlePdfCall
  /\ pdfTempFile = "none"
  /\ pdfOutcome = Thrown(NoError)

\* ---- robustFetch ----

\* The largest tryCount a caller passes.
MaxTryCount == 3

RfStatuses == {200, 299, 300, 500}

RfParams ==
  [tryCount : 1..MaxTryCount, ignoreResponse : BOOLEAN,
   ignoreFailureStatus : BOOLEAN, tryCooldown : BOOLEAN, abort : BOOLEAN]

IdleRfCall ==
  [pc |-> "idle", tryCount |-> 1, ignoreResponse |-> FALSE,
   ignoreFailureStatus |-> FALSE, tryCooldown |-> FALSE, abort |-> FALSE]

NotSettled == [kind |-> "none", error |-> "none", status |-> 0]
Rejected(e) == [kind |-> "rejected", error |-> e, status |-> 0]
Responded(s) == [kind |-> "response", error |-> "none", status |-> s]

\* A variant that retries while any try is left to count down.
hasTryLeftOfZero(tryCount) == tryCount > 0

\* `if (tryCount > 1)`: the guard of both recursive calls.
hasTryLeft(tryCount) == tryCount > 1

\* `response.status >= 300 && !ignoreFailureStatus`
isFailureStatus(status, ignoreFailureStatus) ==
  status >= 300 /\ ~ignoreFailureStatus

RfIdle ==
  /\ rfCall = IdleRfCall
  /\ rfTryCount = 1
  /\ rfSignal = "none"
  /\ rfLast = NotSettled
  /\ rfSent = <<>>
  /\ rfOutcome = "none"

ExtIdle == SitemapIdle /\ RenderIdle /\ PdfIdle /\ RfIdle

rfOthers ==
  <<serviceVars, fetchVars, connVars, callVars, gateVars, sitemapVars,
    renderVars, pdfVars>>

\* A caller calls robustFetch; its signal, if it passes one, may already
\* be aborted.
robustFetchCall(params, signal) ==
  /\ rfCall.pc = "idle"
  /\ signal # "none" => params.abort
  /\ rfCall' = [pc |-> "head"] @@ params
  /\ rfTryCount' = params.tryCount
  /\ rfSignal' = signal
  /\ UNCHANGED <<rfOthers, rfLast, rfSent, rfOutcome>>

\* The owner of the signal aborts it while the call is under way.
RfAbort(reason) ==
  /\ rfCall.pc \in {"head", "sending", "reading", "cooldown"}
  /\ rfCall.abort
  /\ rfSignal = "none"
  /\ rfSignal' = reason
  /\ UNCHANGED <<rfOthers, rfCall, rfTryCount, rfLast, rfSent, rfOutcome>>

\* `abort?.throwIfAborted()` at the head of each call, the recursive ones
\* included, and then the call of fetch.
RfHead ==
  /\ rfCall.pc = "head"
  /\ IF rfSignal # "none"
       THEN /\ rfCall' = [rfCall EXCEPT !.pc = "threw"]
            /\ rfOutcome' = rfSignal
            /\ UNCHANGED rfSent
       ELSE /\ rfCall' = [rfCall EXCEPT !.pc = "sending"]
            /\ rfSent' = Append(rfSent, rfLast)
            /\ UNCHANGED rfOutcome
  /\ UNCHANGED <<rfOthers, rfTryCount, rfSignal, rfLast>>

\* The catch around `await fetch(...)`: an AbortManagerThrownError is
\* rethrown, any other rejection is retried while tries are left.
RfFetchRejected(e) ==
  /\ rfCall.pc = "sending"
  /\ IF rfSignal = "none" THEN e = "network" ELSE e = rfSignal
  /\ rfLast' = Rejected(e)
  /\ IF e = "AbortManagerThrownError"
       THEN /\ rfCall' = [rfCall EXCEPT !.pc = "threw"]
            /\ rfOutcome' = e
       ELSE IF hasTryLeft(rfCall.tryCount)
       THEN /\ rfCall' = [rfCall EXCEPT !.pc = "head",
                                        !.tryCount = rfCall.tryCount - 1]
            /\ UNCHANGED rfOutcome
       ELSE /\ rfCall' = [rfCall EXCEPT !.pc = "threw"]
            /\ rfOutcome' = "Request failed"
  /\ UNCHANGED <<rfOthers, rfTryCount, rfSignal, rfSent>>

\* fetch resolved with a response: `if (ignoreResponse === true) return
\* null`, otherwise the body is read.
RfFetchResolved(status) ==
  /\ rfCall.pc = "sending"
  /\ rfSignal = "none"
  /\ rfLast' = Responded(status)
  /\ IF rfCall.ignoreResponse
       THEN /\ rfCall' = [rfCall EXCEPT !.pc = "returned"]
            /\ rfOutcome' = "null"
       ELSE /\ rfCall' = [rfCall EXCEPT !.pc = "reading"]
            /\ UNCHANGED rfOutcome
  /\ UNCHANGED <<rfOthers, rfTryCount, rfSignal, rfSent>>

\* `await request.text()` settled: a rejection propagates; a failure
\* status is retried while tries are left, after the cooldown if one is
\* given; otherwise the body is parsed and validated.
RfBodyRead(parsed) ==
  /\ rfCall.pc = "reading"
  /\ IF rfSignal # "none"
       THEN /\ rfCall' = [rfCall EXCEPT !.pc = "threw"]
            /\ rfOutcome' = rfSignal
       ELSE IF isFailureStatus(rfLast.status, rfCall.ignoreFailureStatus)
       THEN IF hasTryLeft(rfCall.tryCount)
            THEN /\ rfCall' =
                      IF rfCall.tryCooldown
                        THEN [rfCall EXCEPT !.pc = "cooldown"]
                        ELSE [rfCall EXCEPT !.pc = "head",
                                            !.tryCount = rfCall.tryCount - 1]
                 /\ UNCHANGED rfOutcome
            ELSE /\ rfCall' = [rfCall EXCEPT !.pc = "threw"]
                 /\ rfOutcome' = "Request sent failure status"
       ELSE /\ rfCall' = [rfCall EXCEPT
                            !.pc = IF parsed = "data" THEN "returned"
                                   ELSE "threw"]
            /\ rfOutcome' = parsed
  /\ UNCHANGED <<rfOthers, rfTryCount, rfSignal, rfLast, rfSent>>

\* The timer of tryCooldown fired: the recursive call.
RfCooldownOver ==
  /\ rfCall.pc = "cooldown"
  /\ rfCall' = [rfCall EXCEPT !.pc = "head",
                              !.tryCount = rfCall.tryCount - 1]
  /\ UNCHANGED <<rfOthers, rfTryCount, rfSignal, rfLast, rfSent, rfOutcome>>

pdfOthers ==
  <<serviceVars, fetchVars, connVars, callVars, gateVars, sitemapVars,
    renderVars, rfVars>>

\* scrapePDF is called and awaits fetchFileToBuffer or downloadFile.
scrapePDFCall(options) ==
  /\ pdfCall.pc = "idle"
  /\ pdfCall' =
       [pc |-> IF options.shouldParse THEN "downloading" ELSE "fetching",
        shouldParse |-> options.shouldParse, pdfFlag |-> options.pdfFlag,
        scrapeTimeout |-> options.scrapeTimeout,
        maxPages |-> options.maxPages]
  /\ UNCHANGED <<pdfOthers, pdfTempFile, pdfOutcome>>

\* The end of the try block with `outcome`, and the finally block.
PdfLeaveTry(outcome) ==
  /\ pdfCall' = [pdfCall EXCEPT !.pc = "done"]
  /\ pdfOutcome' = outcome
  /\ pdfTempFile' = pdfFinally(pdfTempFile, outcome)

\* Without parsing: the file is fetched to a buffer and returned in
\* base64; no temporary file.
PdfFetched(ct, failed) ==
  /\ pdfCall.pc = "fetching"
  /\ pdfCall' = [pdfCall EXCEPT !.pc = "done"]
  /\ pdfOutcome' =
       IF failed THEN Thrown(Err("TypeError"))
       ELSE IF pdfContentTypeCheck(ct, pdfCall.pdfFlag) # NoError
       THEN Thrown(pdfContentTypeCheck(ct, pdfCall.pdfFlag))
       ELSE Result(PdfText, PdfText, 200)
  /\ UNCHANGED <<pdfOthers, pdfTempFile>>

\* downloadFile rejects (network failure or abort): nothing was handed to
\* scrapePDF.
PdfDownloadFailed(e) ==
  /\ pdfCall.pc = "downloading"
  /\ pdfCall' = [pdfCall EXCEPT !.pc = "done"]
  /\ pdfOutcome' = Thrown(e)
  /\ UNCHANGED <<pdfOthers, pdfTempFile>>

\* downloadFile resolves: the file exists; the Content-Type is checked and
\* getPdfMetadata is awaited.
PdfDownloaded(ct) ==
  /\ pdfCall.pc = "downloading"
  /\ LET e == pdfContentTypeCheck(ct, pdfCall.pdfFlag)
     IN IF e # NoError
        THEN /\ pdfCall' = [pdfCall EXCEPT !.pc = "done"]
             /\ pdfOutcome' = Thrown(e)
             /\ pdfTempFile' = pdfFinally("exists", Thrown(e))
        ELSE /\ pdfCall' = [pdfCall EXCEPT !.pc = "metadata"]
             /\ pdfTempFile' = "exists"
             /\ UNCHANGED pdfOutcome
  /\ UNCHANGED pdfOthers

\* getPdfMetadata settles: it rejects, or the time check fails, or the
\* parser is started.
PdfMetadata(numPages, failed) ==
  /\ pdfCall.pc = "metadata"
  /\ LET pageCount == effectivePageCount(numPages, pdfCall.maxPages)
     IN IF failed THEN PdfLeaveTry(Thrown(Err("Error")))
        ELSE IF insufficientTime(pageCount, pdfCall.scrapeTimeout)
        THEN PdfLeaveTry(Thrown(Err("PDFInsufficientTimeError")))
        ELSE /\ pdfCall' = [pdfCall EXCEPT !.pc = "parsing"]
             /\ UNCHANGED <<pdfTempFile, pdfOutcome>>
  /\ UNCHANGED pdfOthers

\* scrapePDFWithParsePDF settles: the text, or a failure of readFile or of
\* the parser, or the abort of the scrape.
PdfParsed(outcome) ==
  /\ pdfCall.pc = "parsing"
  /\ PdfLeaveTry(outcome)
  /\ UNCHANGED pdfOthers

(***************************************************************************)
(* Specifications of the components, each started with nothing in          *)
(* progress.                                                               *)
(***************************************************************************)
LibIdle == FetchStart /\ ConnIdle /\ CallIdle /\ GateIdle /\ ExtIdle

FetchInit == ServiceIdle /\ LibIdle

FetchNext ==
  \/ \E p \in Fetchers, url \in FetchUrls, callerConditional \in BOOLEAN :
       FetchSend(p, url, callerConditional)
  \/ \E p \in Fetchers, resp \in AnyServerResponse : FetchReceive(p, resp)
  \/ \E p \in Fetchers : FetchFail(p)
  \/ \E p \in Fetchers : FetchDone(p)

FetchSpec == FetchInit /\ [][FetchNext]_vars

\* Nothing in progress anywhere.
LibInit == ServiceIdle /\ LibIdle

ConnNext ==
  \/ \E r \in OutboundRequests, target \in RemoteAddresses,
        proxy \in ProxyAddresses, allowLocalWebhooks \in BOOLEAN :
       ConnRequest(r, target, proxy, allowLocalWebhooks)
  \/ ConnConnect

ConnSpec == LibInit /\ [][ConnNext]_vars

RobotsNext ==
  \/ \E url \in RobotsUrls, robots \in Robots,
        userAgents \in UserAgentLists :
       RobotsCall(url, robots, userAgents)
  \/ RobotsReturn

RobotsSpec == LibInit /\ [][RobotsNext]_vars

ExtractNext ==
  \/ \E fn \in {"extractLinks", "extractImages"}, attrs \in AttrLists,
        removeBase64 \in BOOLEAN :
       ExtractCall(fn, attrs, removeBase64)
  \/ ExtractReturn

ExtractSpec == LibInit /\ [][ExtractNext]_vars

GateNext ==
  \/ \E content \in FileContents : RulesFileWrite(content)
  \/ \E input \in GateInputs : GateCall(input)

GateSpec == LibInit /\ [][GateNext]_vars

(***************************************************************************)
(* The service handles one request: a scrape or a crawl.                   *)
(***************************************************************************)
Init ==
  /\ mode \in {"scrape", "crawl"}
  /\ usePlaywright \in (IF mode = "scrape" THEN BOOLEAN ELSE {FALSE})
  /\ sPc = "idle"
  /\ sUrl \in (IF mode = "scrape" THEN ScrapeUrls ELSE {UrlRoot})
  /\ sFormats \in (IF mode = "scrape" THEN FormatChoices ELSE {{}})
  /\ featureFlags = {}
  /\ attempts = 0
  /\ fallbackList = <<>>
  /\ idx = 1
  /\ enginesAttempted = <<>>
  /\ lastError = NoError
  /\ attemptLog = <<>>
  /\ accepted = NotAccepted
  /\ lastResult = NoResult
  /\ abortMeta \in {NoMeta(timeout) :
                    timeout \in IF mode = "scrape" THEN BOOLEAN ELSE {TRUE}}
  /\ response = NoResponse
  /\ thrown = NoError
  /\ cPc = IF mode = "crawl" THEN "start" ELSE "idle"
  /\ cSeed \in (IF mode = "crawl" THEN Seeds ELSE {UrlRoot})
  /\ cLimit \in (IF mode = "crawl" THEN 1..MaxLimit ELSE {1})
  /\ cMaxDepth \in (IF mode = "crawl" THEN 0..MaxDepthOpt ELSE {0})
  /\ cFormats \in (IF mode = "crawl" THEN CrawlFormatChoices ELSE {{}})
  /\ frontier = Frontier({}, <<>>, <<>>, FALSE)
  /\ processed = 0
  /\ currentUrl = UrlRoot
  /\ scrapeLog = <<>>
  /\ pages = <<>>
  /\ errors = <<>>
  /\ crawlResponse = NoResponse
  /\ LibIdle

Next ==
  \/ scrapeSingle
  \/ BuildMeta
  \/ RoundStart
  \/ EngineAttempt
  \/ RoundEnd
  \/ CrawlStart
  \/ CrawlSitemap
  \/ CrawlDequeue
  \/ CrawlOnResult
  \/ CrawlFinish

Spec == Init /\ [][Next]_vars

(***************************************************************************)
(* Properties.                                                             *)
(***************************************************************************)
ScrapeSucceeded == sPc = "done" /\ thrown = NoError /\ response.success

CrawlSucceeded == cPc = "done" /\ crawlResponse.success

\* C1: in every successful crawlSite response, stats.succeeded +
\* stats.failed = stats.processed and stats.processed <= min(limit,
\* stats.discovered).
C1_CrawlStats ==
  CrawlSucceeded =>
    LET st == crawlResponse.stats
    IN /\ st.succeeded + st.failed = st.processed
       /\ st.processed <= cLimit
       /\ st.processed <= st.discovered

\* A crawl that scraped three URLs, some with success and some without, and
\* returned.
C1_Witness ==
  /\ CrawlSucceeded
  /\ crawlResponse.stats.processed = 3
  /\ crawlResponse.stats.succeeded >= 1
  /\ crawlResponse.stats.failed >= 1

\* C2: within one crawl no URL is pushed on the frontier queue more than
\* once, also when it is offered again after it was dequeued and scraped.
C2_NoUrlEnqueuedTwice ==
  \A i, j \in 1..Len(frontier.log) :
    i # j => frontier.log[i] # frontier.log[j]

\* A finished crawl in which a URL that had already left the queue was
\* offered to `enqueue` again.
C2_Witness ==
  /\ CrawlSucceeded
  /\ frontier.reoffered
  /\ Len(frontier.log) >= 2

C4_FifoOrder ==
  /\ Len(scrapeLog) <= Len(frontier.log)
  /\ scrapeLog = SubSeq(frontier.log, 1, Len(scrapeLog))
  /\ scrapeLog # <<>> => scrapeLog[1] = cSeed

\* Three URLs were scraped: the seed and two discovered ones.
C4_Witness == CrawlSucceeded /\ Len(scrapeLog) >= 3

\* C5: when the scrape of a crawled URL returns success:false, crawlSite
\* appends {url, error} to errors, adds no page, leaves the queue as it is,
\* does not fail the crawl and goes back to the loop head.
C5_ScrapeFailureRecorded ==
  [][(cPc = "scraping" /\ sPc = "done" /\ thrown = NoError
        /\ ~response.success)
       => /\ errors' = Append(errors,
                              [url |-> currentUrl, error |-> response.error])
          /\ pages' = pages
          /\ frontier' = frontier
          /\ crawlResponse' = NoResponse
          /\ cPc' = "loop"]_vars

\* The first URL of a crawl failed, the crawl went on to a second URL and
\* returned success:true.
C5_Witness ==
  /\ CrawlSucceeded
  /\ Len(scrapeLog) >= 2
  /\ Len(crawlResponse.errors) >= 1
  /\ crawlResponse.errors[1].url = scrapeLog[1]

\* C6: every call of scrapeURL completes with a response, {success:true,
\* document} or {success:false, error} and never both, and never with an
\* escaping exception.
C6_ScrapeAlwaysResponds ==
  sPc = "done" =>
    /\ thrown = NoError
    /\ response.success => DOMAIN response = {"success", "document"}
    /\ ~response.success => DOMAIN response = {"success", "error"}

\* C7: rawHtml is on a returned document only when the caller requested
\* it, for a single scrape and for every page of a crawl.
C7_RawHtmlOnlyWhenRequested ==
  /\ (mode = "scrape" /\ ScrapeSucceeded
        /\ ~hasFormatOfType(sFormats, "rawHtml"))
       => ~HasField(response.document, "rawHtml")
  /\ \A i \in 1..Len(pages) :
       ~hasFormatOfType(cFormats, "rawHtml") => ~HasField(pages[i], "rawHtml")

\* A crawl whose caller did not request rawHtml has a page with Markdown.
C7_Witness ==
  /\ mode = "crawl"
  /\ ~hasFormatOfType(cFormats, "rawHtml")
  /\ Len(pages) >= 1
  /\ HasField(pages[1], "markdown")

\* C8 as stated: for every successful scrape, every requested format is a
\* field of the document, whatever the accepted engine result.
C8_EveryRequestedFormatPresent ==
  ScrapeSucceeded =>
    \A f \in sFormats : HasField(response.document, f)

\* C8, amended: for every successful scrape whose accepted engine result has
\* a non-empty body, every requested format is a field of the document,
\* except markdown, links or images when that transformer threw.
C8_RequestedFormatsPresent ==
  (ScrapeSucceeded /\ Truthy(accepted.html)) =>
    \A f \in sFormats :
      f \notin accepted.failing => HasField(response.document, f)

\* A 404 page with a body, all five formats requested, no transformer
\* failing.
C8_Witness ==
  /\ ScrapeSucceeded
  /\ sFormats = Formats
  /\ accepted.html = HtmlMain
  /\ accepted.failing = {}
  /\ response.document.statusCode = 404

\* C9: for every successful scrape, no format that was not requested is a
\* field of the document, whichever engine produced the result.
C9_NoUnrequestedFormat ==
  ScrapeSucceeded =>
    \A f \in Formats \ sFormats : ~HasField(response.document, f)

C11_FallbackListOrder ==
  [][(sPc = "round" /\ attempts < 3) =>
       LET list == fallbackList'
           n == Len(list)
           typed == "document" \in featureFlags \/ "pdf" \in featureFlags
           at(e) == {i \in 1..n : list[i] = e}
       IN /\ n = 1 + (IF typed THEN 1 ELSE 0)
                   + (IF usePlaywright THEN 1 ELSE 0)
          /\ list[n] = "fetch"
          /\ \A e \in Range(list) : Cardinality(at(e)) = 1
          /\ ("document" \in featureFlags) <=> at("document") = {1}
          /\ ("document" \in featureFlags) \/ at("document") = {}
          /\ ("pdf" \in featureFlags /\ "document" \notin featureFlags)
               <=> at("pdf") = {1}
          /\ at("pdf") \subseteq {1}
          /\ usePlaywright <=> at("playwright") = {n - 1}
          /\ at("playwright") \subseteq {n - 1}
          /\ ~("document" \in Range(list) /\ "pdf" \in Range(list))]_vars

\* A round whose flags hold both pdf and document, with the rendering
\* service configured: the list is Document, Browser, Fetch.
C11_Witness ==
  /\ {"pdf", "document"} \subseteq featureFlags
  /\ usePlaywright
  /\ sPc = "engine"
  /\ fallbackList = <<"document", "playwright", "fetch">>

C13_BrowserRetried ==
  (sPc = "done" /\ lastResult.engine = "playwright"
     /\ lastResult.statusCode \in {401, 403})
    => Cardinality({i \in 1..Len(attemptLog) :
                      /\ attemptLog[i].engine = "playwright"
                      /\ attemptLog[i].round = attempts}) >= 3

\* C14: when a fetch-engine call of a URL follows an earlier one that left
\* an entry for the URL, no other call of the URL being in flight, and the
\* server answers it with 304, the call returns the stored body and the
\* stored status.
C14_CachedBodyAndStatusOn304 ==
  \A p \in Fetchers :
    LET call == fetchCalls[p]
    IN (call.pc = "done" /\ call.alone /\ call.served = 304
          /\ call.cached.body # Undefined /\ call.ret.kind = "result")
         => /\ call.ret.html = call.cached.body
            /\ call.ret.statusCode = call.cached.status

\* C15: no request of the pipeline, through whichever dispatcher and with
\* or without a proxy, hands back a response from a connection whose remote
\* address is a non-unicast IP address unless ALLOW_LOCAL_WEBHOOKS is true.
C15_NoPrivateEgress ==
  (connOutcome = "response" /\ isIPPrivate(SocketRemoteAddress(connRequest)))
    => connRequest.allowLocalWebhooks

\* C16: when an engine attempt ends with a cancellation error (the scrape
\* timeout or an external abort), it is the last attempt of the call: no
\* further engine and no further round is run, and scrapeURL returns
\* {success: false} carrying that very error.
C16_CancellationIsTerminal ==
  \A i \in 1..Len(attemptLog) :
    attemptLog[i].cancellation # NoError
      => /\ i = Len(attemptLog)
         /\ sPc = "done"
         /\ thrown = NoError
         /\ response = Failure(attemptLog[i].cancellation)

\* An external abort ends the second engine of a round after the first
\* one failed with a recoverable error.
C16_Witness ==
  /\ sPc = "done"
  /\ Len(attemptLog) = 2
  /\ attemptLog[1].engine = "playwright"
  /\ attemptLog[2].engine = "fetch"
  /\ attemptLog[2].cancellation = Err("AbortManagerThrownError")
  /\ response = Failure(Err("AbortManagerThrownError"))

\* C18: no answer of POST /scrape or POST /crawl carries a raw engine error:
\* the top-level error of a failed request and the error of each entry of
\* a successful crawl's errors[] is the {code, message} tuple of
\* toPublicError.
C18_NoRawError ==
  \A exposeDetails \in BOOLEAN, exposeStack \in BOOLEAN :
    /\ (mode = "scrape" /\ sPc = "done" /\ thrown = NoError)
         => LET answer ==
                  registerScrapeRoutes(response, exposeDetails, exposeStack)
            IN ~answer.body.success
                 => {"code", "message"} \subseteq DOMAIN answer.body.error
    /\ (mode = "crawl" /\ cPc = "done")
         => LET answer ==
                  registerCrawlRoutes(crawlResponse, exposeDetails,
                                      exposeStack)
            IN IF answer.body.success
               THEN \A i \in 1..Len(answer.body.errors) :
                      {"code", "message"}
                        \subseteq DOMAIN answer.body.errors[i].error
               ELSE {"code", "message"} \subseteq DOMAIN answer.body.error

\* C19: isUrlAllowedByRobots(url, robots, agents) is true exactly when
\* robots is absent, or some agent of the list is allowed for url (a null
\* or undefined verdict counting as allowed) and, if url does not end in
\* '/', that agent is not explicitly disallowed for url + '/'.
C19_RobotsVerdict ==
  (libCall.fn = "isUrlAllowedByRobots" /\ libValue.returned)
    => LET url == libCall.url
           robots == libCall.robots
           agents == libCall.userAgents
       IN libValue.value
            <=> \/ ~robots.present
                \/ \E i \in 1..Len(agents) :
                     /\ robots.isAllowed[<<url, agents[i]>>] # "false"
                     /\ ~endsWithSlash(url)
                          => robots.isAllowed[<<Append(url, "/"), agents[i]>>]
                               # "false"

\* The first agent is allowed for /path but explicitly disallowed for
\* /path/, the second has no verdict for either: the URL is allowed.
C19_Witness ==
  /\ libCall.fn = "isUrlAllowedByRobots"
  /\ libValue = Returned(TRUE)
  /\ libCall.url = <<"/path">>
  /\ libCall.robots.present
  /\ libCall.userAgents = <<"FireCrawlAgent", "FirecrawlAgent">>
  /\ libCall.robots.isAllowed[<<<<"/path">>, "FireCrawlAgent">>] = "true"
  /\ libCall.robots.isAllowed[<<<<"/path", "/">>, "FireCrawlAgent">>] = "false"
  /\ libCall.robots.isAllowed[<<<<"/path">>, "FirecrawlAgent">>] = "undefined"
  /\ libCall.robots.isAllowed[<<<<"/path", "/">>, "FirecrawlAgent">>] = "null"

\* C20: the links and the images of a document hold no duplicate and no
\* non-absolute URL, each being an attribute resolved against the final
\* URL, and their elements are in the order of first occurrence in the
\* HTML.
C20_LinksUniqueAbsoluteOrdered ==
  (libCall.fn \in {"extractLinks", "extractImages"} /\ libValue.returned)
    => LET out == libValue.value
           attrs == libCall.attrs
           FirstAt(u) ==
             CHOOSE i \in 1..Len(attrs) :
               /\ toAbsoluteUrl(libCall.baseUrl, attrs[i]) = u
               /\ \A j \in 1..(i - 1) :
                    toAbsoluteUrl(libCall.baseUrl, attrs[j]) # u
       IN /\ \A i, j \in 1..Len(out) : out[i] = out[j] => i = j
          /\ \A i \in 1..Len(out) :
               /\ out[i] # <<>>
               /\ out[i][1] \in Schemes
               /\ \E k \in 1..Len(attrs) :
                    toAbsoluteUrl(libCall.baseUrl, attrs[k]) = out[i]
          /\ \A i, j \in 1..Len(out) :
               i < j => FirstAt(out[i]) < FirstAt(out[j])

\* Links given as /a, an unparsable value, b, and the absolute form of /a
\* in capitals: two links, in that order.
C20_Witness ==
  /\ libCall.fn = "extractLinks"
  /\ libCall.attrs =
       <<<<"/a">>, <<"https:", "//[">>, <<"HTTPS:", "//EXAMPLE.com", "/a">>>>
  /\ libValue = Returned(<<<<"https:", "//example.com", "/a">>>>)

\* C17: on every completion of scrapeURL, by a success, by a failure result
\* or by an exception raised once the timer of the scrape was armed, the
\* timer is cleared and the abort manager is disposed.
C17_TimerClearedOnCompletion ==
  sPc = "done"
    => (abortMeta.abortHandle # "armed" /\ abortMeta.abort # "live")

\* C21: evaluateGatekeeper is deterministic: two calls in one process with
\* the same html, status code, final URL and title return the same result,
\* whatever calls happened in between and whenever the rules file was
\* loaded.
C21_GatekeeperDeterministic ==
  (gateFirst.made /\ gateLast.made
     /\ gateFirst.input.html = gateLast.input.html
     /\ gateFirst.input.statusCode = gateLast.input.statusCode
     /\ gateFirst.input.finalUrl = gateLast.input.finalUrl
     /\ gateFirst.input.title = gateLast.input.title)
    => gateFirst.result = gateLast.result

\* C22: when an engine returns a result with a success status (200..299 or
\* 304) and empty content, EngineUnsuccessfulError is recorded and the next
\* engine of the list is attempted: the scrape does not end at that engine
\* while engines remain.
C22_UnsuccessfulAdvances ==
  [][(/\ sPc = "engine"
      /\ attemptLog' # attemptLog
      /\ lastResult' # NoResult
      /\ lastResult'.statusCode \in (200..299) \cup {304}
      /\ Trim(checkMarkdown(lastResult', sFormats)) = "")
       => /\ lastError' = Err("EngineUnsuccessfulError")
          /\ idx' = idx + 1
          /\ attempts' = attempts
          /\ response' = NoResponse
          /\ sPc' = IF idx < Len(fallbackList) THEN "engine" ELSE "roundEnd"
    ]_vars

\* The browser engine answered 200 with an empty page: the error is
\* recorded and the fetch engine is next.
C22_Witness ==
  /\ sPc = "engine"
  /\ Len(attemptLog) = 1
  /\ attemptLog[1].engine = "playwright"
  /\ lastResult.statusCode = 200
  /\ lastResult.html = HtmlEmpty
  /\ lastError = Err("EngineUnsuccessfulError")
  /\ idx = 2
  /\ fallbackList[idx] = "fetch"

\* C23: an InsecureConnectionError of the SSRF guard, and any other network
\* error of the fetch engine, advances the engine list: no engine attempt
\* ends the scrape with such an error.
C23_TransportErrorAdvances ==
  [][~(/\ sPc = "engine"
       /\ sPc' = "done"
       /\ ~response'.success
       /\ response'.error.name \in {"InsecureConnectionError", "TypeError"})
    ]_vars

\* C24: when an engine attempt raises EngineError, SSLError,
\* DNSResolutionError, PDFAntibotError, DocumentAntibotError,
\* PDFInsufficientTimeError or ProxySelectionError, the error is recorded as
\* the last error and the next engine of the same round is attempted; the
\* scrape does not end there and no new round starts.
C24_RecoverableAdvances ==
  [][(/\ sPc = "engine"
      /\ attemptLog' # attemptLog
      /\ lastResult' = NoResult)
       => LET raised == IF sPc' = "done" THEN response'.error
                        ELSE lastError'
          IN raised.name \in {"EngineError", "SSLError", "DNSResolutionError",
                              "PDFAntibotError", "DocumentAntibotError",
                              "PDFInsufficientTimeError",
                              "ProxySelectionError"}
               => /\ lastError' = raised
                  /\ idx' = idx + 1
                  /\ attempts' = attempts
                  /\ response' = NoResponse
                  /\ sPc' = IF idx < Len(fallbackList) THEN "engine"
                            ELSE "roundEnd"
    ]_vars

\* The browser engine raised a DNS failure: it is the last error and the
\* fetch engine is next, in the same round.
C24_Witness ==
  /\ sPc = "engine"
  /\ attempts = 1
  /\ Len(attemptLog) = 1
  /\ attemptLog[1].engine = "playwright"
  /\ lastResult = NoResult
  /\ lastError = Err("DNSResolutionError")
  /\ idx = 2
  /\ fallbackList[idx] = "fetch"

\* C25: when an engine attempt raises AddFeatureError, the remaining
\* engines of the round are skipped, the error's flags are added to the
\* flag set, and the next round starts from the first engine of the rebuilt
\* list; so application/pdf seen by the fetch engine on an HTML-looking URL
\* is followed by a PDF-engine attempt.
C25_EscalationStartsNextRound ==
  \A i \in 1..Len(attemptLog) :
    attemptLog[i].escalated
      => /\ attemptLog[i].added \subseteq featureFlags
         /\ \A j \in (i + 1)..Len(attemptLog) :
              attemptLog[j].round > attemptLog[i].round
         /\ sPc = "done"
              => /\ i < Len(attemptLog)
                 /\ attemptLog[i + 1].round = attemptLog[i].round + 1
                 /\ attemptLog[i + 1].engine \in {"document", "pdf"}
         /\ (/\ sPc = "done"
             /\ attemptLog[i].engine = "fetch"
             /\ "pdf" \in attemptLog[i].added
             /\ buildFeatureFlags(sUrl) = {})
              => \E j \in (i + 1)..Len(attemptLog) :
                   attemptLog[j].engine = "pdf"

\* C25, amended: the same for an escalation in the first or the second
\* round; an escalation in the third round is followed by no attempt, and
\* the PDF engine follows unless the document flag was raised as well.
C25_EscalationStartsNextRoundBeforeThird ==
  \A i \in 1..Len(attemptLog) :
    attemptLog[i].escalated
      => /\ attemptLog[i].added \subseteq featureFlags
         /\ \A j \in (i + 1)..Len(attemptLog) :
              attemptLog[j].round > attemptLog[i].round
         /\ (sPc = "done" /\ attemptLog[i].round < 3)
              => /\ i < Len(attemptLog)
                 /\ attemptLog[i + 1].round = attemptLog[i].round + 1
                 /\ attemptLog[i + 1].engine \in {"document", "pdf"}
         /\ (sPc = "done" /\ attemptLog[i].round = 3)
              => i = Len(attemptLog)
         /\ (/\ sPc = "done"
             /\ attemptLog[i].round < 3
             /\ attemptLog[i].engine = "fetch"
             /\ "pdf" \in attemptLog[i].added
             /\ "document" \notin featureFlags)
              => attemptLog[i + 1].engine = "pdf"

\* The fetch engine saw application/pdf at an HTML-looking URL in the first
\* round; the second round began with the PDF engine, whose result was
\* accepted.
C25_Witness ==
  /\ sPc = "done"
  /\ buildFeatureFlags(sUrl) = {}
  /\ ~usePlaywright
  /\ Len(attemptLog) = 2
  /\ attemptLog[1].engine = "fetch"
  /\ attemptLog[1].round = 1
  /\ attemptLog[1].added = {"pdf"}
  /\ attemptLog[2].engine = "pdf"
  /\ attemptLog[2].round = 2
  /\ accepted.engine = "pdf"

\* C26: the flag set of a scrape only grows, and a new round is run only
\* with a flag set strictly larger than that of the round before: an
\* escalation that is followed by a further round has added a flag.
C26_RoundsStrictlyGrowFlags ==
  [][/\ (sPc \notin {"idle", "done"} /\ sPc' \notin {"idle", "meta"})
          => featureFlags \subseteq featureFlags'
     /\ (/\ sPc = "engine"
         /\ sPc' = "roundEnd"
         /\ IsAddFeatureError(lastError')
         /\ attemptLog' # attemptLog
         /\ attemptLog'[Len(attemptLog')].escalated
         /\ HasRoundLeft(attempts))
          => featureFlags' # featureFlags
    ]_vars

C29_AcceptedMarkdownNonEmpty ==
  (/\ sPc = "done"
   /\ response # NoResponse
   /\ response.success
   /\ hasFormatOfType(sFormats, "markdown")
   /\ isGoodStatusCode(response.document.statusCode))
    => /\ response.document.markdown # Undefined
       /\ Trim(response.document.markdown) # ""

\* C30: every cache entry that holds a validator (etag or lastModified)
\* also holds a non-empty body, and every 304 answer to a call whose
\* validator came from the cache is served from the cache.
C30_ValidatorImpliesBody ==
  /\ \A u \in FetchUrls :
       (Truthy(responseCache[u].etag) \/ Truthy(responseCache[u].lastModified))
         => Truthy(responseCache[u].body)
  /\ \A p \in Fetchers :
       LET call == fetchCalls[p]
       IN (/\ call.pc = "done"
           /\ call.served = 304
           /\ ~call.callerConditional
           /\ call.ret.kind = "result")
            => call.ret.html = call.cached.body /\ Truthy(call.ret.html)

\* C31: the conditional-GET cache is last-writer-wins per URL.  An entry
\* changes only when a call of that URL takes its response, and it then
\* holds the etag, lastModified, body, contentType and status of that one
\* response, whatever other calls of the URL are in flight; a call that is
\* answered 304 and is not served from the stored body also writes.  A call
\* answered 304 returns the body of the entry it read before sending.
C31_LastWriterWins ==
  [][/\ \A u \in FetchUrls :
          responseCache'[u] # responseCache[u]
            => \E p \in Fetchers :
                 /\ fetchCalls[p].pc = "sent"
                 /\ fetchCalls'[p].pc = "done"
                 /\ fetchCalls[p].url = u
                 /\ \E resp \in AnyServerResponse :
                      /\ resp.status = fetchCalls'[p].served
                      /\ responseCache'[u] =
                           CacheEntry(resp.etag, resp.lastModified, resp.body,
                                      resp.contentType, resp.status)
     /\ \A p \in Fetchers :
          (/\ fetchCalls[p].pc = "sent"
           /\ fetchCalls'[p].pc = "done"
           /\ fetchCalls'[p].served # NoStatus
           /\ ~(fetchCalls'[p].served = 304
                  /\ Truthy(fetchCalls[p].cached.body)))
            => /\ responseCache'[fetchCalls[p].url].status
                    = fetchCalls'[p].served
               /\ fetchCalls'[p].ret.kind = "result"
                    => responseCache'[fetchCalls[p].url].body
                         = fetchCalls'[p].ret.html
     /\ \A p \in Fetchers :
          (/\ fetchCalls[p].pc = "sent"
           /\ fetchCalls'[p].pc = "done"
           /\ fetchCalls'[p].served = 304
           /\ fetchCalls[p].cached # NoEntry)
            => /\ fetchCalls'[p].ret.kind = "result"
               /\ fetchCalls'[p].ret.html = fetchCalls[p].cached.body
    ]_vars

\* Two calls of one URL overlapped: f2 wrote the entry while f1 was in
\* flight, and f1, answered 304, returned the body it had read before.
C31_Witness ==
  /\ fetchCalls["f1"].pc = "done"
  /\ fetchCalls["f2"].pc = "done"
  /\ fetchCalls["f1"].url = fetchCalls["f2"].url
  /\ ~fetchCalls["f1"].alone
  /\ fetchCalls["f1"].served = 304
  /\ fetchCalls["f2"].served = 404
  /\ fetchCalls["f1"].ret.kind = "result"
  /\ fetchCalls["f1"].ret.html = HtmlMain
  /\ responseCache[fetchCalls["f1"].url].body = HtmlNav
  /\ responseCache[fetchCalls["f1"].url].status = 404

SitemapNext ==
  \/ \E root \in SitemapUrls : SitemapWalk(root)
  \/ \E u \in SitemapUrls, listed \in SitemapLists, pageUrls \in 0..1 :
       SitemapFetched(u, listed, pageUrls)
  \/ \E u \in SitemapUrls : SitemapFetchFailed(u)
  \/ SitemapReturn

SitemapSpec == LibInit /\ [][SitemapNext]_vars

\* C32: during one sitemap walk, whatever the sitemaps list and in whatever
\* order the downloads arrive, each sitemap URL is downloaded at most once
\* and the shared hit set never holds more than SITEMAP_LIMIT URLs.
C32_EachSitemapOnceWithinLimit ==
  /\ \A u \in SitemapUrls : smFetched[u] <= 1
  /\ Cardinality(sitemapsHit) <= SITEMAP_LIMIT
  /\ \A u \in SitemapUrls : smFetched[u] = 1 <=> u \in sitemapsHit

\* The walk is over, the limit was reached, and a sitemap stayed out.
C32_Witness ==
  /\ smPc = "done"
  /\ Cardinality(sitemapsHit) = SITEMAP_LIMIT
  /\ \E u \in SitemapUrls : smFetched[u] = 0
  /\ smCount >= 2

RenderNext ==
  \/ \E r \in RenderRequests, route \in RenderRoutes : RenderAcquire(r, route)
  \/ \E r \in RenderRequests, pageOpened \in BOOLEAN :
       RenderScrape(r, pageOpened)
  \/ \E r \in RenderRequests, closeThrows \in BOOLEAN :
       RenderFinally(r, closeThrows)

RenderSpec == LibInit /\ [][RenderNext]_vars

\* Requests that hold a page permit: granted, and release() not yet called.
PermitHolders ==
  {r \in RenderRequests :
     reqPc[r] \in {"holding", "closing", "closingNoPage", "done", "failed"}
       /\ reqReleases[r] = 0}

\* C33: never more than MAX_CONCURRENT_PAGES requests hold a page permit;
\* the permit count stays between 0 and the maximum (it is the maximum
\* less the holders), nobody waits while a permit is free, and the waiting
\* requests are granted permits in the order they arrived.
C33_PermitsBoundedAndFifo ==
  /\ permits \in 0..MAX_CONCURRENT_PAGES
  /\ Cardinality(PermitHolders) + permits = MAX_CONCURRENT_PAGES
  /\ permits > 0 => semQueue = <<>>
  /\ Len(semGranted) <= Len(semWaited)
  /\ \A i \in 1..Len(semGranted) : semGranted[i] = semWaited[i]
  /\ semWaited = semGranted \o semQueue

\* Two requests waited and were granted permits, first come first served,
\* after the maximum had been reached.
C33_Witness ==
  /\ Len(semGranted) = 2
  /\ semGranted = semWaited
  /\ permits = 0
  /\ Cardinality(PermitHolders) = MAX_CONCURRENT_PAGES

\* C34: a request that acquired a page permit releases it exactly once on
\* every exit path of its handler: when the handler has ended, by
\* returning or by throwing, release() was called once, and never more
\* than once before.
C34_PermitReleasedOnEveryExit ==
  \A r \in RenderRequests :
    /\ reqReleases[r] <= 1
    /\ reqPc[r] \in {"done", "failed"} => reqReleases[r] = 1

\* The latest call of evaluateGatekeeper returned a result; the rules it
\* evaluated and the context it matched them against.
GateReturned == gateLast.made /\ gateLast.result.threw = "nothing"

GateRulesUsed ==
  getDomainConfig(gateLast.input.finalUrl.host, cachedConfig.value).rules

GateCtxUsed ==
  [statusCode |-> gateLast.input.statusCode,
   html |-> gateLast.input.html,
   title |-> gateLast.input.title,
   finalUrl |-> gateLast.input.finalUrl,
   visibleTextChars |-> gateLast.result.quality.visibleTextChars,
   mainContentChars |-> gateLast.result.quality.mainContentChars,
   htmlBytes |-> gateLast.result.quality.htmlBytes]

AllSignalsMatch(rule) ==
  \A i \in 1..Len(rule.signals) : matchesSignal(rule.signals[i], GateCtxUsed)

InEvidence(rule) ==
  \E k \in 1..Len(gateLast.result.evidence) :
    /\ gateLast.result.evidence[k].ruleId = rule.id
    /\ gateLast.result.evidence[k].blockClass = rule.block_class

\* C35: evaluateGatekeeper records a rule as evidence exactly when all of
\* the rule's signals match the response.
C35_RuleFiresIffAllSignalsMatch ==
  GateReturned
    => \A j \in 1..Len(GateRulesUsed) :
         InEvidence(GateRulesUsed[j]) <=> AllSignalsMatch(GateRulesUsed[j])

\* C35, amended: a rule is recorded as evidence exactly when it has at
\* least one signal and all of its signals match the response.
C35_RuleFiresIffSignalsAndAllMatch ==
  GateReturned
    => \A j \in 1..Len(GateRulesUsed) :
         InEvidence(GateRulesUsed[j])
           <=> (Len(GateRulesUsed[j].signals) > 0
                  /\ AllSignalsMatch(GateRulesUsed[j]))

\* A call in which one rule fired, one rule had a signal that did not
\* match, and one rule had no signal at all.
C35_Witness ==
  /\ GateReturned
  /\ \E i, j, k \in 1..Len(GateRulesUsed) :
       /\ InEvidence(GateRulesUsed[i])
       /\ Len(GateRulesUsed[j].signals) > 0
       /\ ~AllSignalsMatch(GateRulesUsed[j])
       /\ ~InEvidence(GateRulesUsed[j])
       /\ GateRulesUsed[k].signals = <<>>
       /\ ~InEvidence(GateRulesUsed[k])

FiredRules ==
  {j \in 1..Len(GateRulesUsed) :
     Len(GateRulesUsed[j].signals) > 0 /\ AllSignalsMatch(GateRulesUsed[j])}

\* How many thresholds the content fails.
FailedThresholds ==
  LET q == gateLast.result.quality
      t == q.thresholds
  IN (IF q.htmlBytes < t.min_html_bytes THEN 1 ELSE 0)
       + (IF q.visibleTextChars < t.min_visible_text_chars THEN 1 ELSE 0)
       + (IF q.mainContentChars < t.min_main_content_chars THEN 1 ELSE 0)
       + (IF t.require_structured_data /\ ~q.hasStructuredData
          THEN 1 ELSE 0)

\* C36: blockClass and confidence are those of the fired rule with the
\* highest confidence when a rule fired; with no rule fired they are thin
\* with confidence min(1, 0.4 + 0.15 n) when n >= 1 thresholds fail, and
\* none with confidence 0 otherwise; contentStatus is blockClass with none
\* mapped to usable; blockClass is none exactly when the evidence is empty.
\* Confidences are in hundredths.
C36_Classification ==
  GateReturned
    => LET r == gateLast.result
           n == FailedThresholds
       IN /\ FiredRules # {}
               => /\ \E k \in 1..Len(r.evidence) :
                       /\ \E j \in FiredRules :
                            r.evidence[k].ruleId = GateRulesUsed[j].id
                       /\ r.blockClass = r.evidence[k].blockClass
                       /\ r.confidence = r.evidence[k].confidence
                       /\ \A m \in 1..Len(r.evidence) :
                            r.evidence[m].confidence <= r.confidence
                  /\ Len(r.evidence) = Cardinality(FiredRules)
          /\ (FiredRules = {} /\ n >= 1)
               => /\ r.blockClass = "thin"
                  /\ r.confidence = Min(100, 40 + 15 * n)
          /\ (FiredRules = {} /\ n = 0)
               => r.blockClass = "none" /\ r.confidence = 0
          /\ r.contentStatus =
               (IF r.blockClass = "none" THEN "usable" ELSE r.blockClass)
          /\ r.blockClass = "none" <=> r.evidence = <<>>

\* Two rules fired and the later, more confident one won; the first call
\* of the process, made with no rules, found the page thin on three counts.
C36_Witness ==
  /\ GateReturned
  /\ Cardinality(FiredRules) = 2
  /\ gateLast.result.blockClass = "soft_block"
  /\ gateLast.result.confidence = 90
  /\ gateLast.result.evidence[2].ruleId = "cf"
  /\ gateFirst.result.threw = "nothing"
  /\ gateFirst.result.blockClass = "thin"
  /\ gateFirst.result.confidence = 85

SpecialtyNext ==
  \/ \E headers \in HeaderRecords : SpecialtyCall(headers)
  \/ SpecialtyReturn

SpecialtySpec == LibInit /\ [][SpecialtyNext]_vars

\* The Content-Type of the headers handed to specialtyScrapeCheck, if any.
HasContentType ==
  \E i \in 1..Len(libCall.headers) :
    libCall.headers[i].name \in {"content-type", "Content-Type"}

GivenContentType ==
  libCall.headers[CHOOSE i \in 1..Len(libCall.headers) :
                    libCall.headers[i].name
                      \in {"content-type", "Content-Type"}].value

\* C37: specialtyScrapeCheck raises AddFeatureError(document) exactly when
\* the Content-Type begins with a known office-document type, raises
\* AddFeatureError(pdf) exactly when it does not and is application/pdf,
\* alone or followed by parameters, and otherwise returns, a missing
\* Content-Type included.
C37_SpecialtyCheck ==
  (libCall.fn = "specialtyScrapeCheck" /\ libValue.returned)
    => LET isDoc == /\ HasContentType
                    /\ GivenContentType # <<>>
                    /\ GivenContentType[1] \in documentTypes
           isPdf == /\ HasContentType
                    /\ GivenContentType # <<>>
                    /\ GivenContentType[1] = "application/pdf"
                    /\ Len(GivenContentType) > 1 => GivenContentType[2] = ";"
       IN /\ libValue.value = AddFeatureError({"document"}) <=> isDoc
          /\ libValue.value = AddFeatureError({"pdf"}) <=> (~isDoc /\ isPdf)
          /\ libValue.value = NoError <=> (~isDoc /\ ~isPdf)

\* A document type followed by a parameter, under a capitalised header
\* name and after another header, raised AddFeatureError(document).
C37_Witness ==
  /\ libCall.fn = "specialtyScrapeCheck"
  /\ Len(libCall.headers) = 2
  /\ libCall.headers[2].name = "Content-Type"
  /\ libCall.headers[2].value =
       <<"application/msword", ";", " charset=utf-8">>
  /\ libValue = Returned(AddFeatureError({"document"}))

PdfNext ==
  \/ \E options \in PdfOptions : scrapePDFCall(options)
  \/ \E ct \in {"application/pdf", "text/html", "none"}, failed \in BOOLEAN :
       PdfFetched(ct, failed)
  \/ \E e \in {Err("TypeError"), Err("AbortManagerThrownError")} :
       PdfDownloadFailed(e)
  \/ \E ct \in {"application/pdf", "text/html", "none"} : PdfDownloaded(ct)
  \/ \E numPages \in PdfNumPages, failed \in BOOLEAN :
       PdfMetadata(numPages, failed)
  \/ \E outcome \in {Result(PdfText, PdfText, 200), Result("", "", 200),
                     Thrown(Err("Error")),
                     Thrown(Err("AbortManagerThrownError"))} :
       PdfParsed(outcome)

PdfSpec == LibInit /\ [][PdfNext]_vars

C39_HtmlIsCleaned ==
  (/\ sPc = "done"
   /\ response # NoResponse
   /\ response.success
   /\ hasFormatOfType(sFormats, "html")
   /\ accepted # NotAccepted
   /\ Truthy(accepted.html))
    => response.document.html
         \in {htmlTransform(accepted.html, onlyMainContent) :
                onlyMainContent \in BOOLEAN}

RfParseOutcomes ==
  {"data", "Request sent malformed JSON",
   "Response does not match provided schema",
   "Parsing response with provided schema failed"}

AbortReasons == {"AbortManagerThrownError", "AbortError"}

RobustFetchNext ==
  \/ \E params \in RfParams, signal \in {"none"} \cup AbortReasons :
       robustFetchCall(params, signal)
  \/ \E reason \in AbortReasons : RfAbort(reason)
  \/ RfHead
  \/ \E e \in {"network"} \cup AbortReasons : RfFetchRejected(e)
  \/ \E status \in RfStatuses : RfFetchResolved(status)
  \/ \E parsed \in RfParseOutcomes : RfBodyRead(parsed)
  \/ RfCooldownOver

RobustFetchSpec == LibInit /\ [][RobustFetchNext]_vars

\* How far a call of robustFetch is from returning or throwing.
RfRank(call, signal) ==
  IF call.pc \in {"idle", "returned", "threw"} THEN 0
  ELSE 2 * (4 * call.tryCount
            + (CASE call.pc = "head" -> 3
                 [] call.pc = "sending" -> 2
                 [] call.pc = "reading" -> 1
                 [] OTHER -> 0))
       + (IF signal = "none" THEN 1 ELSE 0)

\* C40: robustFetch sends at most tryCount requests and every step of a
\* call brings it nearer to returning or throwing; a request after the
\* first is sent only when the one before was rejected with a network
\* failure or answered with a status >= 300 while ignoreFailureStatus is
\* false; no request follows an AbortManagerThrownError, and none is sent
\* while the abort signal is aborted.
C40_BoundedRetries ==
  [][/\ Len(rfSent') <= rfTryCount'
     /\ rfCall.pc # "idle" => RfRank(rfCall', rfSignal') < RfRank(rfCall, rfSignal)
     /\ Len(rfSent') > Len(rfSent) =>
          /\ rfSignal = "none"
          /\ rfLast # Rejected("AbortManagerThrownError")
          /\ Len(rfSent) > 0 =>
               \/ rfLast = Rejected("network")
               \/ /\ rfLast.kind = "response"
                  /\ rfLast.status >= 300
                  /\ ~rfCall.ignoreFailureStatus]_vars

\* A call with tryCount 3 sent three requests, the second after a network
\* failure and the third after a 500 and the cooldown, and returned data.
C40_Witness ==
  /\ rfTryCount = MaxTryCount
  /\ rfCall.pc = "returned"
  /\ rfCall.tryCooldown
  /\ rfOutcome = "data"
  /\ Len(rfSent) = 3
  /\ rfSent[2] = Rejected("network")
  /\ rfSent[3] = Responded(500)

====
